---------------------------- MODULE Spec2Model ----------------------------
(***************************************************************************)
(* Model of the scene manager of the CS-330 lamp scene                     *)
(* (Source/SceneManager.cpp): the texture registry, the material registry, *)
(* the shader state binder and the render-pass state that RenderScene      *)
(* drives through OpenGL, starting from the render state that              *)
(* ViewManager::CreateDisplayWindow leaves behind; and of the view manager *)
(* (Source/ViewManager.cpp): the keyboard poll, the mouse callbacks and    *)
(* the view and projection PrepareSceneView pushes every frame.            *)
(*                                                                         *)
(* Conventions.  A C++ float literal is represented by the integer number  *)
(* of millionths it denotes (0.72f is 720000, 256.0f is 256000000).  A     *)
(* glm::vec is a tuple of such integers.  GL object names are the          *)
(* positive integers in the order glGenTextures hands them out; name 0 is  *)
(* "no texture".  A std::string is a TLA+ string.                          *)
(***************************************************************************)
EXTENDS Integers, Sequences, FiniteSets, TLC

(***************************************************************************)
(* Bounds of the model                                                     *)
(***************************************************************************)
\* successful CreateGLTexture calls explored by the registry specification
MaxLoads == 3
\* texture names glGenTextures may hand out in the registry specification
MaxNames == 4
\* DefineObjectMaterials calls explored by the binder specification
MaxDefines == 2
\* frames rendered by the scene specification
MaxFrames == 2
\* largest value of glfwGetTime explored by the view specification
MaxTime == 1
\* successful CreateGLTexture calls explored by the capacity specification
MaxTableLoads == 17
\* rejected loads (each leaves a texture name behind) explored by the
\* capacity specification
MaxTableLeaks == 2

(***************************************************************************)
(* Program constants                                                       *)
(***************************************************************************)
\* size of the m_textureIDs table ("There are up to 16 slots")
TextureCapacity == 16

g_ModelName == "model"
g_ColorValueName == "objectColor"
g_TextureValueName == "objectTexture"
g_UseTextureName == "bUseTexture"
g_UseLightingName == "bUseLighting"

\* the tags and files the registry specification calls the operations with
Tags == {"A", "B"}
NoTag == ""

\* what stbi_load yields for a file: 0 when it returns NULL, else the
\* number of colour channels of the decoded image
TestFiles ==
  [f \in {"missing.jpg", "graya.png", "rgb.jpg", "rgba.png"} |->
     CASE f = "missing.jpg" -> 0
       [] f = "graya.png" -> 2
       [] f = "rgb.jpg" -> 3
       [] f = "rgba.png" -> 4]

VARIABLES
  \* ---- SceneManager fields
  m_pShaderManager,    \* "ShaderManager" or "NULL"
  m_loadedTextures,    \* number of registered textures
  m_textureIDs,        \* table 0..TextureCapacity-1 of [ID, tag]
  m_objectMaterials,   \* std::vector<OBJECT_MATERIAL>
  \* ---- collaborators
  files,               \* the image files: name -> outcome of stbi_load
  stbi,                \* [flip: flip-on-load flag, held: decoded buffers not freed]
  glTex,               \* [gen: names generated, active: active unit, units: unit -> bound name]
  glState,             \* render state: capabilities, blend factors, depth mask, cull face
  uniforms,            \* uniform state of the shader program: name -> value
  meshes,              \* the set of meshes ShapeMeshes has loaded
  \* ---- the RenderScene activation
  pc,                  \* 0: not in RenderScene; k: statement k of RenderSceneOps is next
  scaleXYZ,            \* local of RenderScene
  positionXYZ,         \* local of RenderScene
  frame,               \* number of RenderScene calls that returned
  \* ---- observation
  \* call.again, where present: the call repeats the call before it
  call,                \* the last operation called, its arguments and its result
  okLoads,             \* history: tags of the successful CreateGLTexture calls, in order
  failedTags,          \* history: tags of the CreateGLTexture calls whose file did not decode
  released,            \* history: DestroyGLTextures was called
  firstAfterRelease,   \* history: tag of the first successful load after the last release
  glassEntry,          \* history: RenderPassState when the glass-shade block began
  sinceDraw,           \* history: the calls RenderScene made since its previous draw call
  sinceCall,           \* history: the calls RenderScene made since it was entered
  seen,                \* history: per draw call, the uniforms it saw in the first frame and last time
  \* ---- ViewManager
  m_pWindow,           \* the GLFW window: [shouldClose: its close flag]
  g_pCamera,           \* the Camera object
  gLastX,              \* last mouse position
  gLastY,
  gFirstMouse,
  gDeltaTime,          \* time between current frame and last frame
  gLastFrame,
  bOrthographicProjection,
  lastKey              \* history: which of the O and P keys was seen pressed last

vars ==
  <<m_pShaderManager, m_loadedTextures, m_textureIDs, m_objectMaterials, files,
    stbi, glTex, glState, uniforms, meshes, pc, scaleXYZ, positionXYZ, frame,
    call, okLoads, failedTags, released, firstAfterRelease, glassEntry,
    sinceDraw, sinceCall, seen,
    m_pWindow, g_pCamera, gLastX, gLastY, gFirstMouse, gDeltaTime, gLastFrame,
    bOrthographicProjection, lastKey>>

\* the history of the RenderScene activation
histVars == <<sinceDraw, sinceCall, seen>>

\* the file-scope state of ViewManager.cpp and the window
viewVars ==
  <<m_pWindow, g_pCamera, gLastX, gLastY, gFirstMouse, gDeltaTime, gLastFrame,
    bOrthographicProjection, lastKey>>

\* the variables the texture operations read and write, as one record
texVars ==
  <<m_loadedTextures, m_textureIDs, stbi, glTex, okLoads, failedTags, released,
    firstAfterRelease>>

TexState ==
  [m_loadedTextures |-> m_loadedTextures, m_textureIDs |-> m_textureIDs,
   stbi |-> stbi, glTex |-> glTex, okLoads |-> okLoads,
   failedTags |-> failedTags, released |-> released,
   firstAfterRelease |-> firstAfterRelease, ret |-> FALSE]

SetTexState(s) ==
  /\ m_loadedTextures' = s.m_loadedTextures
  /\ m_textureIDs' = s.m_textureIDs
  /\ stbi' = s.stbi
  /\ glTex' = s.glTex
  /\ okLoads' = s.okLoads
  /\ failedTags' = s.failedTags
  /\ released' = s.released
  /\ firstAfterRelease' = s.firstAfterRelease

(***************************************************************************)
(* Texture registry                                                        *)
(***************************************************************************)
\* glGenTextures(1, &id): the next unused name
glGenTextures(s) == [s EXCEPT !.glTex.gen = @ + 1]

\* glBindTexture(GL_TEXTURE_2D, name) on the active unit
glBindTexture(s, name) == [s EXCEPT !.glTex.units[s.glTex.active] = name]

\* mutant: the else branch of the channel test is missing
ChannelsSupported_Any(colorChannels) == TRUE

ChannelsSupported(colorChannels) == colorChannels = 3 \/ colorChannels = 4

\* mutant: every entry is written at index 0
RegisterTexture_SlotZero(s, textureID, tag) ==
  [s EXCEPT !.m_textureIDs[0] = [ID |-> textureID, tag |-> tag],
            !.m_loadedTextures = @ + 1]

\* mutant: the count is not incremented
RegisterTexture_NoIncrement(s, textureID, tag) ==
  [s EXCEPT !.m_textureIDs[s.m_loadedTextures] = [ID |-> textureID, tag |-> tag]]

\* the entry is written at index m_loadedTextures, which then grows by one
RegisterTexture(s, textureID, tag) ==
  [s EXCEPT !.m_textureIDs[s.m_loadedTextures] = [ID |-> textureID, tag |-> tag],
            !.m_loadedTextures = @ + 1]

\* CreateGLTexture as a function of the texture state; ret is its result
DoCreateGLTexture(s, image, tag) ==
  LET s0 == [s EXCEPT !.stbi.flip = TRUE] IN
  IF image # 0
    THEN LET s1 == [s0 EXCEPT !.stbi.held = @ + 1]
             s2 == glGenTextures(s1)
             textureID == s2.glTex.gen
             s3 == glBindTexture(s2, textureID)
         IN IF ChannelsSupported(image)
              THEN LET s4 == [s3 EXCEPT !.stbi.held = @ - 1]
                       s5 == glBindTexture(s4, 0)
                       s6 == RegisterTexture(s5, textureID, tag)
                   IN [s6 EXCEPT !.ret = TRUE,
                                 !.okLoads = Append(@, tag),
                                 !.firstAfterRelease =
                                    IF s.released /\ @ = NoTag THEN tag ELSE @]
              ELSE [s3 EXCEPT !.ret = FALSE]
    ELSE [s0 EXCEPT !.ret = FALSE, !.failedTags = @ \cup {tag}]

RECURSIVE BindLoop(_, _)
BindLoop(s, i) ==
  IF i < s.m_loadedTextures
    THEN BindLoop(glBindTexture([s EXCEPT !.glTex.active = i], s.m_textureIDs[i].ID),
                  i + 1)
    ELSE s

\* mutant: glActiveTexture is not called, every entry is bound on the
\* unit that happens to be active
RECURSIVE BindLoop_ActiveUnit(_, _)
BindLoop_ActiveUnit(s, i) ==
  IF i < s.m_loadedTextures
    THEN BindLoop_ActiveUnit(glBindTexture(s, s.m_textureIDs[i].ID), i + 1)
    ELSE s

DoBindGLTextures_ActiveUnit(s) == BindLoop_ActiveUnit(s, 0)

DoBindGLTextures(s) == BindLoop(s, 0)

RECURSIVE DestroyLoop(_, _)
DestroyLoop(s, i) ==
  IF i < s.m_loadedTextures
    THEN LET s1 == glGenTextures(s)
         IN DestroyLoop([s1 EXCEPT !.m_textureIDs[i].ID = s1.glTex.gen], i + 1)
    ELSE s

DoDestroyGLTextures(s) ==
  [DestroyLoop(s, 0) EXCEPT !.released = TRUE, !.firstAfterRelease = NoTag]

RECURSIVE FindTextureIDLoop(_, _)
FindTextureIDLoop(tag, index) ==
  IF index < m_loadedTextures
    THEN IF m_textureIDs[index].tag = tag
           THEN m_textureIDs[index].ID
           ELSE FindTextureIDLoop(tag, index + 1)
    ELSE -1

FindTextureID(tag) == FindTextureIDLoop(tag, 0)

RECURSIVE FindTextureSlotLoop(_, _)
FindTextureSlotLoop(tag, index) ==
  IF index < m_loadedTextures
    THEN IF m_textureIDs[index].tag = tag
           THEN index
           ELSE FindTextureSlotLoop(tag, index + 1)
    ELSE -1

\* mutant: textureSlot starts at 0 instead of -1
FindTextureSlot_DefaultZero(tag) ==
  IF FindTextureSlotLoop(tag, 0) = -1 THEN 0 ELSE FindTextureSlotLoop(tag, 0)

FindTextureSlot(tag) == FindTextureSlotLoop(tag, 0)

(***************************************************************************)
(* Material registry                                                       *)
(***************************************************************************)
BuiltInMaterials ==
  <<
    [tag |-> "copper", diffuseColor |-> <<720000, 430000, 200000>>, specularColor |-> <<950000, 700000, 450000>>, shininess |-> 256000000],
    [tag |-> "plasticBlack", diffuseColor |-> <<60000, 60000, 60000>>, specularColor |-> <<200000, 200000, 200000>>, shininess |-> 8000000],
    [tag |-> "glass", diffuseColor |-> <<550000, 600000, 700000>>, specularColor |-> <<1500000, 1500000, 1500000>>, shininess |-> 160000000],
    [tag |-> "floorMat", diffuseColor |-> <<220000, 220000, 240000>>, specularColor |-> <<850000, 850000, 900000>>, shininess |-> 128000000],
    [tag |-> "wallMat", diffuseColor |-> <<600000, 550000, 450000>>, specularColor |-> <<20000, 20000, 20000>>, shininess |-> 4000000],
    [tag |-> "zebraMat", diffuseColor |-> <<900000, 900000, 900000>>, specularColor |-> <<200000, 200000, 200000>>, shininess |-> 10000000],
    [tag |-> "mirrorMat", diffuseColor |-> <<750000, 750000, 750000>>, specularColor |-> <<1000000, 1000000, 1000000>>, shininess |-> 256000000],
    [tag |-> "chevronMat", diffuseColor |-> <<850000, 850000, 850000>>, specularColor |-> <<150000, 150000, 150000>>, shininess |-> 12000000],
    [tag |-> "boxFurMat", diffuseColor |-> <<600000, 600000, 600000>>, specularColor |-> <<200000, 200000, 200000>>, shininess |-> 10000000]
  >>

DoDefineObjectMaterials(materials) == materials \o BuiltInMaterials

\* values an OBJECT_MATERIAL that was declared and never assigned may hold
\* (zeros, or what an earlier call left in the same stack slot): FindMaterial's
\* caller reads them when no entry matched
ZeroMaterial ==
  [diffuseColor |-> <<0, 0, 0>>, specularColor |-> <<0, 0, 0>>, shininess |-> 0]

MaterialValue(m) ==
  [diffuseColor |-> m.diffuseColor, specularColor |-> m.specularColor,
   shininess |-> m.shininess]

IndeterminateMaterials ==
  {ZeroMaterial, MaterialValue(BuiltInMaterials[1]), MaterialValue(BuiltInMaterials[3])}

\* mutant: the scan goes on after a match, so the last entry with the tag
\* is the one copied
FindMaterialLoop_LastMatch(tag, material, index) ==
  LET matches == {i \in index .. Len(m_objectMaterials) - 1 :
                    m_objectMaterials[i + 1].tag = tag}
  IN IF matches = {}
       THEN [bFound |-> FALSE, material |-> material,
             index |-> Len(m_objectMaterials)]
       ELSE LET last == CHOOSE i \in matches : \A j \in matches : j <= i
            IN [bFound |-> TRUE,
                material |-> MaterialValue(m_objectMaterials[last + 1]),
                index |-> last]

\* the while loop of FindMaterial from index on: bFound, the content of
\* material and the local index when the loop ends
RECURSIVE FindMaterialLoop(_, _, _)
FindMaterialLoop(tag, material, index) ==
  IF index < Len(m_objectMaterials)
    THEN IF m_objectMaterials[index + 1].tag = tag
           THEN [bFound |-> TRUE,
                 material |-> MaterialValue(m_objectMaterials[index + 1]),
                 index |-> index]
           ELSE FindMaterialLoop(tag, material, index + 1)
    ELSE [bFound |-> FALSE, material |-> material, index |-> index]

\* mutant: the result is bFound
FindMaterial_ReturnsFound(tag, material) ==
  IF Len(m_objectMaterials) = 0
    THEN [ret |-> FALSE, material |-> material]
    ELSE [ret |-> FindMaterialLoop(tag, material, 0).bFound,
          material |-> FindMaterialLoop(tag, material, 0).material]

\* FindMaterial(tag, material&): the result and the content of material after
FindMaterial(tag, material) ==
  IF Len(m_objectMaterials) = 0
    THEN [ret |-> FALSE, material |-> material]
    ELSE [ret |-> TRUE, material |-> FindMaterialLoop(tag, material, 0).material]

(***************************************************************************)
(* Shader state binder                                                     *)
(***************************************************************************)
\* ShaderManager::set*Value(name, value)
setValue(u, name, value) == (name :> value) @@ u

\* mutant: the factors are multiplied in the opposite order
ModelView_Reversed(scale, Xrot, Yrot, Zrot, position) ==
  <<<<"scale", scale>>, <<"rotateX", Xrot>>, <<"rotateY", Yrot>>,
    <<"rotateZ", Zrot>>, <<"translate", position>>>>

\* translation * rotationZ * rotationY * rotationX * scale, kept as the
\* formal product of its five factors
ModelView(scale, Xrot, Yrot, Zrot, position) ==
  <<<<"translate", position>>, <<"rotateZ", Zrot>>, <<"rotateY", Yrot>>,
    <<"rotateX", Xrot>>, <<"scale", scale>>>>

\* the product of two numbers given in millionths, for operands that are
\* whole thousandths (32-bit arithmetic cannot hold the full product)
MulMillionths(a, b) == (a \div 1000) * (b \div 1000)

\* cos and sin of glm::radians(degrees), to the millionth, for an angle
\* that is a multiple of 90 degrees
Cos(degrees) ==
  CASE degrees % 360000000 = 0 -> 1000000
    [] degrees % 360000000 = 90000000 -> 0
    [] degrees % 360000000 = 180000000 -> -1000000
    [] degrees % 360000000 = 270000000 -> 0

Sin(degrees) ==
  CASE degrees % 360000000 = 0 -> 0
    [] degrees % 360000000 = 90000000 -> 1000000
    [] degrees % 360000000 = 180000000 -> 0
    [] degrees % 360000000 = 270000000 -> -1000000

\* the matrix of one factor (glm::scale, glm::rotate about a coordinate
\* axis, glm::translate) applied to the point p
ApplyFactor(factor, p) ==
  LET v == factor[2] IN
  CASE factor[1] = "scale" ->
         <<MulMillionths(v[1], p[1]), MulMillionths(v[2], p[2]),
           MulMillionths(v[3], p[3])>>
    [] factor[1] = "rotateX" ->
         <<p[1],
           MulMillionths(Cos(v), p[2]) - MulMillionths(Sin(v), p[3]),
           MulMillionths(Sin(v), p[2]) + MulMillionths(Cos(v), p[3])>>
    [] factor[1] = "rotateY" ->
         <<MulMillionths(Cos(v), p[1]) + MulMillionths(Sin(v), p[3]),
           p[2],
           MulMillionths(Cos(v), p[3]) - MulMillionths(Sin(v), p[1])>>
    [] factor[1] = "rotateZ" ->
         <<MulMillionths(Cos(v), p[1]) - MulMillionths(Sin(v), p[2]),
           MulMillionths(Sin(v), p[1]) + MulMillionths(Cos(v), p[2]),
           p[3]>>
    [] factor[1] = "translate" -> <<p[1] + v[1], p[2] + v[2], p[3] + v[3]>>

\* the product M of matrices applied to the point p: the rightmost factor
\* acts first
RECURSIVE TransformPoint(_, _)
TransformPoint(M, p) ==
  IF M = <<>> THEN p ELSE ApplyFactor(Head(M), TransformPoint(Tail(M), p))

DoSetTransformations(u, scale, Xrot, Yrot, Zrot, position) ==
  IF m_pShaderManager # "NULL"
    THEN setValue(u, g_ModelName, ModelView(scale, Xrot, Yrot, Zrot, position))
    ELSE u

\* mutant: the use-texture flag is not cleared
DoSetShaderColor_KeepsFlag(u, currentColor) ==
  IF m_pShaderManager # "NULL" THEN setValue(u, g_ColorValueName, currentColor) ELSE u

\* setIntValue(g_UseTextureName, false) stores the integer 0
DoSetShaderColor(u, currentColor) ==
  IF m_pShaderManager # "NULL"
    THEN setValue(setValue(u, g_UseTextureName, 0), g_ColorValueName, currentColor)
    ELSE u

DoSetShaderTexture(u, textureTag) ==
  IF m_pShaderManager # "NULL"
    THEN setValue(setValue(u, g_UseTextureName, 1), g_TextureValueName,
                  FindTextureSlot(textureTag))
    ELSE u

\* mutant: the use-texture flag is set along with the scale
DoSetTextureUVScale_SetsFlag(u, uv) ==
  IF m_pShaderManager # "NULL"
    THEN setValue(setValue(u, g_UseTextureName, 1), "UVscale", uv)
    ELSE u

DoSetTextureUVScale(u, uv) ==
  IF m_pShaderManager # "NULL" THEN setValue(u, "UVscale", uv) ELSE u

\* mutant: the shininess is added to the value the shader holds
DoSetShaderMaterial_Accumulates(u, materialTag, local) ==
  IF Len(m_objectMaterials) > 0
    THEN LET found == FindMaterial(materialTag, local)
         IN setValue(setValue(setValue(u,
              "material.diffuseColor", found.material.diffuseColor),
              "material.specularColor", found.material.specularColor),
              "material.shininess", u["material.shininess"] + found.material.shininess)
    ELSE u

\* local is the content of the unassigned local "material" at its declaration
DoSetShaderMaterial(u, materialTag, local) ==
  IF Len(m_objectMaterials) > 0
    THEN LET found == FindMaterial(materialTag, local)
         IN IF found.ret = TRUE
              THEN setValue(setValue(setValue(u,
                     "material.diffuseColor", found.material.diffuseColor),
                     "material.specularColor", found.material.specularColor),
                     "material.shininess", found.material.shininess)
              ELSE u
    ELSE u

(***************************************************************************)
(* View manager (Source/ViewManager.cpp)                                   *)
(***************************************************************************)
\* window size in pixels, in millionths like every float of the model
WINDOW_WIDTH == 1000000000
WINDOW_HEIGHT == 800000000
g_ViewName == "view"
g_ProjectionName == "projection"
NoKey == ""

\* The Camera class is not part of the sources.  Of a Camera the model
\* keeps the fields ViewManager.cpp assigns, and three marks for what the
\* Camera's own methods did since: moved (ProcessKeyboard was called
\* since Position was assigned), turned (ProcessMouseMovement was called
\* since Front was assigned), scrolled (ProcessMouseScroll was called).
\* A direction the source normalizes is kept as <<"normalize", vector>>.
InitCamera ==
  [Position |-> <<500000, 8000000, 16000000>>,
   Front |-> <<"normalize", <<-100000, -400000, -1000000>>>>,
   Up |-> <<0, 1000000, 0>>,
   Zoom |-> 80000000,
   MovementSpeed |-> 2500000,
   moved |-> FALSE, turned |-> FALSE, scrolled |-> FALSE]

\* g_pCamera->ProcessKeyboard(direction, gDeltaTime) for each movement key
\* that is down
MovementKeys == {"W", "S", "A", "D", "Q", "E"}

ProcessMovementKeys(camera, pressed) ==
  IF pressed \cap MovementKeys # {} THEN [camera EXCEPT !.moved = TRUE] ELSE camera

\* the P key: perspective view
PressP(camera) ==
  [camera EXCEPT !.Position = <<500000, 10500000, 22000000>>,
                 !.Front = <<"normalize", <<-100000, -450000, -1000000>>>>,
                 !.Up = <<0, 1000000, 0>>,
                 !.moved = FALSE, !.turned = FALSE]

\* the O key: orthographic view
PressO(camera) ==
  [camera EXCEPT !.Position = <<0, 7500000, 12000000>>,
                 !.Front = <<0, 0, -1000000>>,
                 !.Up = <<0, 1000000, 0>>,
                 !.moved = FALSE, !.turned = FALSE]

\* ProcessKeyboardEvents with the keys in pressed down: the camera, the
\* projection flag and the close flag after it
DoProcessKeyboardEvents(pressed) ==
  LET c1 == ProcessMovementKeys(g_pCamera, pressed)
      c2 == IF "P" \in pressed THEN PressP(c1) ELSE c1
      c3 == IF "O" \in pressed THEN PressO(c2) ELSE c2
  IN [camera |-> c3,
      bOrthographicProjection |->
        IF "O" \in pressed THEN TRUE
        ELSE IF "P" \in pressed THEN FALSE
        ELSE bOrthographicProjection,
      shouldClose |-> m_pWindow.shouldClose \/ "ESCAPE" \in pressed]

\* g_pCamera->GetViewMatrix(): a function of the camera
GetViewMatrix(camera) == <<"view", camera>>

\* glm::perspective(glm::radians(Zoom), WINDOW_WIDTH / WINDOW_HEIGHT, 0.1f, 100.0f)
Perspective(camera) ==
  <<"perspective", camera.Zoom, <<WINDOW_WIDTH, WINDOW_HEIGHT>>, 100000, 100000000>>

\* the projection PrepareSceneView computes: line 297 is its only
\* assignment, and bOrthographicProjection is read nowhere in the file
Projection(camera, orthographic) == Perspective(camera)

(***************************************************************************)
(* The state after construction and window setup                           *)
(***************************************************************************)
\* GLSL uniforms are zero until first written
InitUniforms ==
  (g_ModelName :> <<>>) @@ (g_ColorValueName :> <<0, 0, 0, 0>>) @@
  (g_TextureValueName :> 0) @@ (g_UseTextureName :> 0) @@
  (g_UseLightingName :> FALSE) @@ ("UVscale" :> <<0, 0>>) @@
  ("material.diffuseColor" :> <<0, 0, 0>>) @@
  ("material.specularColor" :> <<0, 0, 0>>) @@ ("material.shininess" :> 0)

\* OpenGL's initial render state with the blending that
\* ViewManager::CreateDisplayWindow switches on
InitGLState(depthTest) ==
  [GL_BLEND |-> TRUE, blendFunc |-> <<"GL_SRC_ALPHA", "GL_ONE_MINUS_SRC_ALPHA">>,
   GL_DEPTH_TEST |-> depthTest, depthMask |-> TRUE, GL_CULL_FACE |-> FALSE,
   cullFace |-> "GL_BACK", unpackAlignment |-> 4]

InitWith(fileSystem, depthTest) ==
  /\ m_pShaderManager = "ShaderManager"
  /\ m_loadedTextures = 0
  /\ m_textureIDs = [i \in 0..(TextureCapacity - 1) |-> [ID |-> 0, tag |-> NoTag]]
  /\ m_objectMaterials = <<>>
  /\ files = fileSystem
  /\ stbi = [flip |-> FALSE, held |-> 0]
  /\ glTex = [gen |-> 0, active |-> 0, units |-> [i \in 0..(TextureCapacity - 1) |-> 0]]
  /\ glState = InitGLState(depthTest)
  /\ uniforms = InitUniforms
  /\ meshes = {}
  /\ pc = 0
  /\ scaleXYZ = <<0, 0, 0>>
  /\ positionXYZ = <<0, 0, 0>>
  /\ frame = 0
  /\ call = [op |-> "SceneManager", args |-> <<>>, ret |-> TRUE]
  /\ okLoads = <<>>
  /\ failedTags = {}
  /\ released = FALSE
  /\ firstAfterRelease = NoTag
  /\ glassEntry = <<>>
  /\ sinceDraw = {}
  /\ sinceCall = {}
  /\ seen = <<>>
  /\ m_pWindow = [shouldClose |-> FALSE]
  /\ g_pCamera = InitCamera
  /\ gLastX = WINDOW_WIDTH \div 2
  /\ gLastY = WINDOW_HEIGHT \div 2
  /\ gFirstMouse = TRUE
  /\ gDeltaTime = 0
  /\ gLastFrame = 0
  /\ bOrthographicProjection = FALSE
  /\ lastKey = NoKey

Init == InitWith(TestFiles, FALSE)

(***************************************************************************)
(* Texture registry operations as actions                                  *)
(***************************************************************************)
CreateGLTexture(filename, tag) ==
  /\ pc = 0
  /\ m_loadedTextures < MaxLoads
  /\ glTex.gen < MaxNames
  /\ LET s == DoCreateGLTexture(TexState, files[filename], tag)
     IN /\ SetTexState(s)
        /\ call' = [op |-> "CreateGLTexture", args |-> <<filename, tag>>, ret |-> s.ret]
  /\ UNCHANGED <<m_pShaderManager, m_objectMaterials, files, glState, uniforms,
                 meshes, pc, scaleXYZ, positionXYZ, frame, glassEntry, histVars, viewVars>>

BindGLTextures ==
  /\ pc = 0
  /\ SetTexState(DoBindGLTextures(TexState))
  /\ call' = [op |-> "BindGLTextures", args |-> <<>>, ret |-> TRUE,
              again |-> (call.op = "BindGLTextures")]
  /\ UNCHANGED <<m_pShaderManager, m_objectMaterials, files, glState, uniforms,
                 meshes, pc, scaleXYZ, positionXYZ, frame, glassEntry, histVars, viewVars>>

DestroyGLTextures ==
  /\ pc = 0
  /\ glTex.gen + m_loadedTextures <= MaxNames
  /\ SetTexState(DoDestroyGLTextures(TexState))
  /\ call' = [op |-> "DestroyGLTextures", args |-> <<>>, ret |-> TRUE]
  /\ UNCHANGED <<m_pShaderManager, m_objectMaterials, files, glState, uniforms,
                 meshes, pc, scaleXYZ, positionXYZ, frame, glassEntry, histVars, viewVars>>

CallFindTextureID(tag) ==
  /\ pc = 0
  /\ call' = [op |-> "FindTextureID", args |-> <<tag>>, ret |-> FindTextureID(tag)]
  /\ UNCHANGED <<m_pShaderManager, m_objectMaterials, files, glState, uniforms,
                 meshes, pc, scaleXYZ, positionXYZ, frame, glassEntry, histVars, viewVars>>
  /\ UNCHANGED texVars

CallFindTextureSlot(tag) ==
  /\ pc = 0
  /\ call' = [op |-> "FindTextureSlot", args |-> <<tag>>, ret |-> FindTextureSlot(tag)]
  /\ UNCHANGED <<m_pShaderManager, m_objectMaterials, files, glState, uniforms,
                 meshes, pc, scaleXYZ, positionXYZ, frame, glassEntry, histVars, viewVars>>
  /\ UNCHANGED texVars

(***************************************************************************)
(* Shader state binder and material registry operations as actions         *)
(***************************************************************************)
SetTransformations(scale, Xrot, Yrot, Zrot, position) ==
  /\ pc = 0
  /\ uniforms' = DoSetTransformations(uniforms, scale, Xrot, Yrot, Zrot, position)
  /\ call' = [op |-> "SetTransformations",
              args |-> <<scale, Xrot, Yrot, Zrot, position>>, ret |-> TRUE]
  /\ UNCHANGED <<m_pShaderManager, m_objectMaterials, files, glState, meshes, pc,
                 scaleXYZ, positionXYZ, frame, glassEntry, histVars, viewVars>>
  /\ UNCHANGED texVars

SetShaderColor(currentColor) ==
  /\ pc = 0
  /\ uniforms' = DoSetShaderColor(uniforms, currentColor)
  /\ call' = [op |-> "SetShaderColor", args |-> <<currentColor>>, ret |-> TRUE]
  /\ UNCHANGED <<m_pShaderManager, m_objectMaterials, files, glState, meshes, pc,
                 scaleXYZ, positionXYZ, frame, glassEntry, histVars, viewVars>>
  /\ UNCHANGED texVars

SetShaderTexture(textureTag) ==
  /\ pc = 0
  /\ uniforms' = DoSetShaderTexture(uniforms, textureTag)
  /\ call' = [op |-> "SetShaderTexture", args |-> <<textureTag>>, ret |-> TRUE]
  /\ UNCHANGED <<m_pShaderManager, m_objectMaterials, files, glState, meshes, pc,
                 scaleXYZ, positionXYZ, frame, glassEntry, histVars, viewVars>>
  /\ UNCHANGED texVars

SetTextureUVScale(uv) ==
  /\ pc = 0
  /\ uniforms' = DoSetTextureUVScale(uniforms, uv)
  /\ call' = [op |-> "SetTextureUVScale", args |-> <<uv>>, ret |-> TRUE]
  /\ UNCHANGED <<m_pShaderManager, m_objectMaterials, files, glState, meshes, pc,
                 scaleXYZ, positionXYZ, frame, glassEntry, histVars, viewVars>>
  /\ UNCHANGED texVars

SetShaderMaterial(materialTag, local) ==
  /\ pc = 0
  /\ uniforms' = DoSetShaderMaterial(uniforms, materialTag, local)
  /\ call' = [op |-> "SetShaderMaterial", args |-> <<materialTag>>, ret |-> TRUE,
              again |-> (call.op = "SetShaderMaterial" /\ call.args = <<materialTag>>)]
  /\ UNCHANGED <<m_pShaderManager, m_objectMaterials, files, glState, meshes, pc,
                 scaleXYZ, positionXYZ, frame, glassEntry, histVars, viewVars>>
  /\ UNCHANGED texVars

CallFindMaterial(tag, local) ==
  /\ pc = 0
  /\ call' = [op |-> "FindMaterial", args |-> <<tag, local>>,
              ret |-> FindMaterial(tag, local)]
  /\ UNCHANGED <<m_pShaderManager, m_objectMaterials, files, glState, uniforms,
                 meshes, pc, scaleXYZ, positionXYZ, frame, glassEntry, histVars, viewVars>>
  /\ UNCHANGED texVars

DefineObjectMaterials ==
  /\ pc = 0
  /\ Len(m_objectMaterials) < MaxDefines * Len(BuiltInMaterials)
  /\ m_objectMaterials' = DoDefineObjectMaterials(m_objectMaterials)
  /\ call' = [op |-> "DefineObjectMaterials", args |-> <<>>, ret |-> TRUE]
  /\ UNCHANGED <<m_pShaderManager, files, glState, uniforms, meshes, pc, scaleXYZ,
                 positionXYZ, frame, glassEntry, histVars, viewVars>>
  /\ UNCHANGED texVars

\* the registry specification: the texture operations in any order
Next ==
  \/ \E filename \in DOMAIN files, tag \in Tags : CreateGLTexture(filename, tag)
  \/ BindGLTextures
  \/ DestroyGLTextures
  \/ \E tag \in Tags : CallFindTextureID(tag)
  \/ \E tag \in Tags : CallFindTextureSlot(tag)
  \/ \E tag \in Tags : SetShaderTexture(tag)

Spec == Init /\ [][Next]_vars

(***************************************************************************)
(* The capacity specification: CreateGLTexture called until the table is   *)
(* full and once more.  Nothing in CreateGLTexture compares                *)
(* m_loadedTextures with the size of m_textureIDs, so with TextureCapacity *)
(* entries registered the stores of lines 149-150 go past the end of the   *)
(* table.  That is undefined behaviour; the outcomes modelled are: the     *)
(* stores land in memory none of the modelled fields occupies and the call *)
(* runs on to its m_loadedTextures++, or the process dies in the store.    *)
(***************************************************************************)
CapacityTags == {"A"}
OverrunOutcomes == {"stray", "crash"}

\* slot is the index the entry was stored at (-1: none); pc = -1 is a dead process
CreateGLTextureAtCapacity(filename, tag) ==
  /\ pc = 0
  /\ m_loadedTextures < MaxTableLoads
  /\ (files[filename] # 0 /\ ~ChannelsSupported(files[filename]))
       => stbi.held < MaxTableLeaks
  /\ LET s == DoCreateGLTexture(TexState, files[filename], tag)
         overrun == s.ret /\ m_loadedTextures >= TextureCapacity
     IN \/ /\ ~overrun
           /\ SetTexState(s)
           /\ pc' = pc
           /\ call' = [op |-> "CreateGLTexture", args |-> <<filename, tag>>,
                       ret |-> s.ret,
                       slot |-> IF s.ret THEN m_loadedTextures ELSE -1]
        \/ /\ overrun
           /\ \E outcome \in OverrunOutcomes :
                IF outcome = "stray"
                  THEN /\ SetTexState(s)
                       /\ pc' = pc
                       /\ call' = [op |-> "CreateGLTexture",
                                   args |-> <<filename, tag>>, ret |-> TRUE,
                                   slot |-> m_loadedTextures]
                  ELSE /\ SetTexState([s EXCEPT
                                         !.m_loadedTextures = m_loadedTextures,
                                         !.okLoads = okLoads,
                                         !.firstAfterRelease = firstAfterRelease])
                       /\ pc' = -1
                       /\ call' = [op |-> "CreateGLTexture",
                                   args |-> <<filename, tag>>, ret |-> FALSE,
                                   slot |-> m_loadedTextures]
  /\ UNCHANGED <<m_pShaderManager, m_objectMaterials, files, glState, uniforms,
                 meshes, scaleXYZ, positionXYZ, frame, glassEntry, histVars, viewVars>>

NextCapacity ==
  \E filename \in DOMAIN files, tag \in CapacityTags :
    CreateGLTextureAtCapacity(filename, tag)

SpecCapacity == Init /\ [][NextCapacity]_vars

(***************************************************************************)
(* The binder specification: the material registry and the shader state    *)
(* binder, called in any order with arguments from small sets              *)
(***************************************************************************)
MaterialTags == {"copper", "glass", "undefined"}
Colors == {<<1000000, 0, 0, 1000000>>, <<0, 0, 0, 1000000>>}
UVScales == {<<1000000, 1000000>>, <<3000000, 3000000>>}
Scales == {<<2000000, 1000000, 1000000>>}
Rotations == {0, 90000000}
Positions == {<<1000000, 0, 0>>}

NextBinder ==
  \/ DefineObjectMaterials
  \/ \E tag \in MaterialTags, local \in IndeterminateMaterials :
       CallFindMaterial(tag, local)
  \/ \E tag \in MaterialTags, local \in IndeterminateMaterials :
       SetShaderMaterial(tag, local)
  \/ \E currentColor \in Colors : SetShaderColor(currentColor)
  \/ \E tag \in Tags : SetShaderTexture(tag)
  \/ \E uv \in UVScales : SetTextureUVScale(uv)
  \/ \E scale \in Scales, Yrot \in Rotations, position \in Positions :
       SetTransformations(scale, 0, Yrot, 0, position)

SpecBinder == Init /\ [][NextBinder]_vars

(***************************************************************************)
(* The transform specification: SetTransformations called with scales,     *)
(* right-angle rotations about the three axes and positions                *)
(***************************************************************************)
TransformScales == {<<2000000, 1000000, 1000000>>, <<1000000, 2000000, 3000000>>}
RightAngles == {0, 90000000, 180000000, -90000000}
TransformPositions == {<<1000000, 0, 0>>, <<0, 1000000, -2000000>>}

NextTransform ==
  \E scale \in TransformScales, Xrot \in RightAngles, Yrot \in RightAngles,
     Zrot \in RightAngles, position \in TransformPositions :
    SetTransformations(scale, Xrot, Yrot, Zrot, position)

SpecTransform == Init /\ [][NextTransform]_vars

(***************************************************************************)
(* Scene preparation                                                       *)
(***************************************************************************)
\* the CreateGLTexture calls of LoadSceneTextures: <<filename, tag>>
SceneTextureLoads ==
  <<
    <<"textures/agedrustic.jpg", "Copper">>,
    <<"textures/frostedglass.jpg", "FrostedGlass">>,
    <<"textures/DarkBrownEpoxyFloor.jpg", "Floor">>,
    <<"textures/Wall_Plaster_Cream_Dark.jpg", "Wall">>,
    <<"textures/Zebra_Top.jpg", "ZebraFur">>,
    <<"textures/Mirror.jpg", "Mirror">>,
    <<"textures/FeltChevron.jpg", "ChevronFur">>,
    <<"textures/BoxFur.jpg", "BoxFur">>
  >>

\* the uniform writes of SetupSceneLights: <<name, value>>
SceneLightWrites ==
  <<
    <<"bUseLighting", TRUE>>,
    <<"directionalLight.direction", <<-200000, -1000000, -300000>>>>,
    <<"directionalLight.ambient", <<280000, 280000, 280000>>>>,
    <<"directionalLight.diffuse", <<380000, 380000, 380000>>>>,
    <<"directionalLight.specular", <<500000, 500000, 500000>>>>,
    <<"directionalLight.bActive", TRUE>>,
    <<"pointLights[0].position", <<0, 10150000, -3500000>>>>,
    <<"pointLights[0].ambient", <<220000, 200000, 150000>>>>,
    <<"pointLights[0].diffuse", <<1080000, 950000, 780000>>>>,
    <<"pointLights[0].specular", <<1250000, 1100000, 900000>>>>,
    <<"pointLights[0].constant", 1000000>>,
    <<"pointLights[0].linear", 110000>>,
    <<"pointLights[0].quadratic", 38000>>,
    <<"pointLights[1].position", <<0, 5500000, -1000000>>>>,
    <<"pointLights[1].ambient", <<200000, 200000, 200000>>>>,
    <<"pointLights[1].diffuse", <<400000, 400000, 400000>>>>,
    <<"pointLights[1].specular", <<200000, 200000, 200000>>>>,
    <<"pointLights[1].constant", 1000000>>,
    <<"pointLights[1].linear", 90000>>,
    <<"pointLights[1].quadratic", 32000>>,
    <<"pointLights[1].bActive", TRUE>>,
    <<"pointLights[2].position", <<0, 10900000, -3500000>>>>,
    <<"pointLights[2].ambient", <<120000, 100000, 80000>>>>,
    <<"pointLights[2].diffuse", <<450000, 380000, 280000>>>>,
    <<"pointLights[2].specular", <<550000, 500000, 400000>>>>,
    <<"pointLights[2].constant", 1000000>>,
    <<"pointLights[2].linear", 90000>>,
    <<"pointLights[2].quadratic", 32000>>,
    <<"pointLights[2].bActive", TRUE>>,
    <<"pointLights[3].position", <<-1200000, 11500000, -6000000>>>>,
    <<"pointLights[3].ambient", <<50000, 45000, 35000>>>>,
    <<"pointLights[3].diffuse", <<150000, 130000, 110000>>>>,
    <<"pointLights[3].specular", <<50000, 45000, 35000>>>>,
    <<"pointLights[3].constant", 1000000>>,
    <<"pointLights[3].linear", 90000>>,
    <<"pointLights[3].quadratic", 32000>>,
    <<"pointLights[3].bActive", TRUE>>,
    <<"pointLights[4].position", <<1200000, 11500000, -6000000>>>>,
    <<"pointLights[4].ambient", <<50000, 45000, 35000>>>>,
    <<"pointLights[4].diffuse", <<150000, 130000, 110000>>>>,
    <<"pointLights[4].specular", <<50000, 45000, 35000>>>>,
    <<"pointLights[4].constant", 1000000>>,
    <<"pointLights[4].linear", 90000>>,
    <<"pointLights[4].quadratic", 32000>>,
    <<"pointLights[4].bActive", TRUE>>,
    <<"spotLight.bActive", FALSE>>
  >>

SceneMeshes ==
  {"Box", "Cylinder", "Sphere", "Prism", "Plane", "Torus", "Pyramid3",
   "TaperedCylinder"}

RECURSIVE LoadLoop(_, _, _)
LoadLoop(s, fileSystem, i) ==
  IF i <= Len(SceneTextureLoads)
    THEN LoadLoop(DoCreateGLTexture(s, fileSystem[SceneTextureLoads[i][1]],
                                    SceneTextureLoads[i][2]),
                  fileSystem, i + 1)
    ELSE s

\* LoadSceneTextures: the eight loads, whatever each returns, then the bind
DoLoadSceneTextures(s, fileSystem) == DoBindGLTextures(LoadLoop(s, fileSystem, 1))

\* SetupSceneLights: every uniform it names ends with the value of the last
\* write to it, the others keep theirs
DoSetupSceneLights(u) ==
  LET writes == DOMAIN SceneLightWrites
      written == {SceneLightWrites[i][1] : i \in writes}
      last(n) == CHOOSE i \in writes :
                   /\ SceneLightWrites[i][1] = n
                   /\ \A j \in writes : SceneLightWrites[j][1] = n => j <= i
  IN [n \in DOMAIN u \cup written |->
        IF n \in written THEN SceneLightWrites[last(n)][2] ELSE u[n]]

\* PrepareScene defines the materials and sets up the lights before the
\* mesh loads and once more after them
PrepareSceneMaterials(materials) ==
  DoDefineObjectMaterials(DoDefineObjectMaterials(materials))

PrepareScene ==
  /\ pc = 0
  /\ call.op = "SceneManager"
  /\ SetTexState(DoLoadSceneTextures(TexState, files))
  /\ glState' = [glState EXCEPT !.unpackAlignment = 1]
  /\ m_objectMaterials' = PrepareSceneMaterials(m_objectMaterials)
  /\ uniforms' = DoSetupSceneLights(DoSetupSceneLights(uniforms))
  /\ meshes' = meshes \cup SceneMeshes
  /\ call' = [op |-> "PrepareScene", args |-> <<>>, ret |-> TRUE]
  /\ UNCHANGED <<m_pShaderManager, files, pc, scaleXYZ, positionXYZ, frame,
                 glassEntry, histVars, viewVars>>

(***************************************************************************)
(* RenderScene, statement by statement                                     *)
(***************************************************************************)
\* the statements of RenderScene in program order, each with its source line
RenderSceneOps ==
  <<
    [line |-> 691, op |-> "glDisable", args |-> <<"GL_BLEND">>],
    [line |-> 692, op |-> "glBlendFunc", args |-> <<"GL_SRC_ALPHA", "GL_ONE_MINUS_SRC_ALPHA">>],
    [line |-> 693, op |-> "glDepthMask", args |-> <<TRUE>>],
    [line |-> 694, op |-> "setBoolValue", args |-> <<"bUseLighting", TRUE>>],
    [line |-> 695, op |-> "glEnable", args |-> <<"GL_DEPTH_TEST">>],
    [line |-> 696, op |-> "glDisable", args |-> <<"GL_CULL_FACE">>],
    [line |-> 741, op |-> "scaleXYZ", args |-> <<8000000, 1000000, 6000000>>],
    [line |-> 742, op |-> "positionXYZ", args |-> <<0, 0, 0>>],
    [line |-> 743, op |-> "SetTransformations", args |-> <<0, 0, 0>>],
    [line |-> 744, op |-> "SetShaderMaterial", args |-> <<"floorMat">>],
    [line |-> 745, op |-> "SetShaderTexture", args |-> <<"Floor">>],
    [line |-> 746, op |-> "SetTextureUVScale", args |-> <<3000000, 3000000>>],
    [line |-> 747, op |-> "Draw", args |-> <<"DrawPlaneMesh">>],
    [line |-> 751, op |-> "scaleXYZ", args |-> <<8000000, 1000000, 12000000>>],
    [line |-> 752, op |-> "positionXYZ", args |-> <<0, 12000000, -6000000>>],
    [line |-> 753, op |-> "SetTransformations", args |-> <<-90000000, 0, 0>>],
    [line |-> 754, op |-> "SetShaderMaterial", args |-> <<"wallMat">>],
    [line |-> 755, op |-> "SetShaderTexture", args |-> <<"Wall">>],
    [line |-> 756, op |-> "SetTextureUVScale", args |-> <<2000000, 2000000>>],
    [line |-> 757, op |-> "setVec4Value", args |-> <<"objectColor", <<1000000, 1000000, 1000000, 1000000>>>>],
    [line |-> 759, op |-> "Draw", args |-> <<"DrawPlaneMesh">>],
    [line |-> 765, op |-> "scaleXYZ", args |-> <<1200000, 1200000, 150000>>],
    [line |-> 768, op |-> "positionXYZ", args |-> <<-1800000, 16000000, -5900000>>],
    [line |-> 769, op |-> "SetTransformations", args |-> <<0, 0, -90000000>>],
    [line |-> 770, op |-> "SetShaderMaterial", args |-> <<"zebraMat">>],
    [line |-> 771, op |-> "SetShaderTexture", args |-> <<"ZebraFur">>],
    [line |-> 772, op |-> "SetTextureUVScale", args |-> <<1000000, 1000000>>],
    [line |-> 773, op |-> "Draw", args |-> <<"DrawBoxMesh">>],
    [line |-> 776, op |-> "positionXYZ", args |-> <<-600000, 16000000, -5900000>>],
    [line |-> 777, op |-> "SetTransformations", args |-> <<0, 0, 0>>],
    [line |-> 778, op |-> "SetShaderMaterial", args |-> <<"zebraMat">>],
    [line |-> 779, op |-> "SetShaderTexture", args |-> <<"ZebraFur">>],
    [line |-> 780, op |-> "SetTextureUVScale", args |-> <<1000000, 1000000>>],
    [line |-> 781, op |-> "Draw", args |-> <<"DrawBoxMesh">>],
    [line |-> 784, op |-> "positionXYZ", args |-> <<600000, 16000000, -5900000>>],
    [line |-> 785, op |-> "SetTransformations", args |-> <<0, 0, -90000000>>],
    [line |-> 786, op |-> "SetShaderMaterial", args |-> <<"zebraMat">>],
    [line |-> 787, op |-> "SetShaderTexture", args |-> <<"ZebraFur">>],
    [line |-> 788, op |-> "SetTextureUVScale", args |-> <<1000000, 1000000>>],
    [line |-> 789, op |-> "Draw", args |-> <<"DrawBoxMesh">>],
    [line |-> 792, op |-> "positionXYZ", args |-> <<1800000, 16000000, -5900000>>],
    [line |-> 793, op |-> "SetTransformations", args |-> <<0, 0, 0>>],
    [line |-> 794, op |-> "SetShaderMaterial", args |-> <<"zebraMat">>],
    [line |-> 795, op |-> "SetShaderTexture", args |-> <<"ZebraFur">>],
    [line |-> 796, op |-> "SetTextureUVScale", args |-> <<1000000, 1000000>>],
    [line |-> 797, op |-> "Draw", args |-> <<"DrawBoxMesh">>],
    [line |-> 803, op |-> "scaleXYZ", args |-> <<1200000, 1200000, 150000>>],
    [line |-> 804, op |-> "positionXYZ", args |-> <<-1800000, 14800000, -5900000>>],
    [line |-> 805, op |-> "SetTransformations", args |-> <<0, 0, 180000000>>],
    [line |-> 806, op |-> "SetShaderMaterial", args |-> <<"zebraMat">>],
    [line |-> 807, op |-> "SetShaderTexture", args |-> <<"ZebraFur">>],
    [line |-> 808, op |-> "SetTextureUVScale", args |-> <<1000000, 1000000>>],
    [line |-> 809, op |-> "Draw", args |-> <<"DrawBoxMesh">>],
    [line |-> 812, op |-> "positionXYZ", args |-> <<-1800000, 13600000, -5900000>>],
    [line |-> 813, op |-> "SetTransformations", args |-> <<0, 0, 270000000>>],
    [line |-> 814, op |-> "SetShaderMaterial", args |-> <<"zebraMat">>],
    [line |-> 815, op |-> "SetShaderTexture", args |-> <<"ZebraFur">>],
    [line |-> 816, op |-> "SetTextureUVScale", args |-> <<1000000, 1000000>>],
    [line |-> 817, op |-> "Draw", args |-> <<"DrawBoxMesh">>],
    [line |-> 820, op |-> "positionXYZ", args |-> <<-1800000, 12400000, -5900000>>],
    [line |-> 821, op |-> "SetTransformations", args |-> <<0, 0, 180000000>>],
    [line |-> 822, op |-> "SetShaderMaterial", args |-> <<"zebraMat">>],
    [line |-> 823, op |-> "SetShaderTexture", args |-> <<"ZebraFur">>],
    [line |-> 824, op |-> "SetTextureUVScale", args |-> <<1000000, 1000000>>],
    [line |-> 825, op |-> "Draw", args |-> <<"DrawBoxMesh">>],
    [line |-> 831, op |-> "positionXYZ", args |-> <<1800000, 14800000, -5900000>>],
    [line |-> 832, op |-> "SetTransformations", args |-> <<0, 0, 90000000>>],
    [line |-> 833, op |-> "SetShaderMaterial", args |-> <<"zebraMat">>],
    [line |-> 834, op |-> "SetShaderTexture", args |-> <<"ZebraFur">>],
    [line |-> 835, op |-> "SetTextureUVScale", args |-> <<1000000, 1000000>>],
    [line |-> 836, op |-> "Draw", args |-> <<"DrawBoxMesh">>],
    [line |-> 839, op |-> "positionXYZ", args |-> <<1800000, 13600000, -5900000>>],
    [line |-> 840, op |-> "SetTransformations", args |-> <<0, 0, 0>>],
    [line |-> 841, op |-> "SetShaderMaterial", args |-> <<"zebraMat">>],
    [line |-> 842, op |-> "SetShaderTexture", args |-> <<"ZebraFur">>],
    [line |-> 843, op |-> "SetTextureUVScale", args |-> <<1000000, 1000000>>],
    [line |-> 844, op |-> "Draw", args |-> <<"DrawBoxMesh">>],
    [line |-> 847, op |-> "positionXYZ", args |-> <<1800000, 12400000, -5900000>>],
    [line |-> 848, op |-> "SetTransformations", args |-> <<0, 0, 90000000>>],
    [line |-> 849, op |-> "SetShaderMaterial", args |-> <<"zebraMat">>],
    [line |-> 850, op |-> "SetShaderTexture", args |-> <<"ZebraFur">>],
    [line |-> 851, op |-> "SetTextureUVScale", args |-> <<1000000, 1000000>>],
    [line |-> 852, op |-> "Draw", args |-> <<"DrawBoxMesh">>],
    [line |-> 858, op |-> "positionXYZ", args |-> <<-600000, 12400000, -5900000>>],
    [line |-> 859, op |-> "SetTransformations", args |-> <<0, 0, 90000000>>],
    [line |-> 860, op |-> "SetShaderMaterial", args |-> <<"zebraMat">>],
    [line |-> 861, op |-> "SetShaderTexture", args |-> <<"ZebraFur">>],
    [line |-> 862, op |-> "SetTextureUVScale", args |-> <<1000000, 1000000>>],
    [line |-> 863, op |-> "Draw", args |-> <<"DrawBoxMesh">>],
    [line |-> 866, op |-> "positionXYZ", args |-> <<600000, 12400000, -5900000>>],
    [line |-> 867, op |-> "SetTransformations", args |-> <<0, 0, 180000000>>],
    [line |-> 868, op |-> "SetShaderMaterial", args |-> <<"zebraMat">>],
    [line |-> 869, op |-> "SetShaderTexture", args |-> <<"ZebraFur">>],
    [line |-> 870, op |-> "SetTextureUVScale", args |-> <<1000000, 1000000>>],
    [line |-> 871, op |-> "Draw", args |-> <<"DrawBoxMesh">>],
    [line |-> 875, op |-> "scaleXYZ", args |-> <<2400000, 2400000, 100000>>],
    [line |-> 876, op |-> "positionXYZ", args |-> <<0, 14200000, -5920000>>],
    [line |-> 877, op |-> "SetTransformations", args |-> <<0, 0, 0>>],
    [line |-> 878, op |-> "SetShaderMaterial", args |-> <<"mirrorMat">>],
    [line |-> 879, op |-> "SetShaderTexture", args |-> <<"Mirror">>],
    [line |-> 880, op |-> "SetTextureUVScale", args |-> <<1000000, 1000000>>],
    [line |-> 881, op |-> "Draw", args |-> <<"DrawBoxMesh">>],
    [line |-> 886, op |-> "scaleXYZ", args |-> <<400000, 1000000, 400000>>],
    [line |-> 889, op |-> "positionXYZ", args |-> <<-2800000, 500000, -700000>>],
    [line |-> 890, op |-> "SetTransformations", args |-> <<0, 0, 0>>],
    [line |-> 891, op |-> "SetShaderColor", args |-> <<50000, 50000, 50000, 1000000>>],
    [line |-> 892, op |-> "Draw", args |-> <<"DrawBoxMesh">>],
    [line |-> 895, op |-> "positionXYZ", args |-> <<2800000, 500000, -700000>>],
    [line |-> 896, op |-> "SetTransformations", args |-> <<0, 0, 0>>],
    [line |-> 897, op |-> "SetShaderColor", args |-> <<50000, 50000, 50000, 1000000>>],
    [line |-> 898, op |-> "Draw", args |-> <<"DrawBoxMesh">>],
    [line |-> 901, op |-> "positionXYZ", args |-> <<-2800000, 500000, -5300000>>],
    [line |-> 902, op |-> "SetTransformations", args |-> <<0, 0, 0>>],
    [line |-> 903, op |-> "SetShaderColor", args |-> <<50000, 50000, 50000, 1000000>>],
    [line |-> 904, op |-> "Draw", args |-> <<"DrawBoxMesh">>],
    [line |-> 907, op |-> "positionXYZ", args |-> <<2800000, 500000, -5300000>>],
    [line |-> 908, op |-> "SetTransformations", args |-> <<0, 0, 0>>],
    [line |-> 909, op |-> "SetShaderColor", args |-> <<50000, 50000, 50000, 1000000>>],
    [line |-> 910, op |-> "Draw", args |-> <<"DrawBoxMesh">>],
    [line |-> 915, op |-> "scaleXYZ", args |-> <<6000000, 4500000, 5000000>>],
    [line |-> 916, op |-> "positionXYZ", args |-> <<0, 3250000, -3000000>>],
    [line |-> 917, op |-> "SetTransformations", args |-> <<0, 0, 0>>],
    [line |-> 918, op |-> "SetShaderMaterial", args |-> <<"mirrorMat">>],
    [line |-> 919, op |-> "SetShaderTexture", args |-> <<"Mirror">>],
    [line |-> 920, op |-> "SetTextureUVScale", args |-> <<1000000, 1000000>>],
    [line |-> 921, op |-> "Draw", args |-> <<"DrawBoxMesh">>],
    [line |-> 926, op |-> "scaleXYZ", args |-> <<5600000, 325000, 4600000>>],
    [line |-> 927, op |-> "positionXYZ", args |-> <<0, 5660000, -3000000>>],
    [line |-> 928, op |-> "SetTransformations", args |-> <<0, 0, 0>>],
    [line |-> 929, op |-> "SetShaderMaterial", args |-> <<"mirrorMat">>],
    [line |-> 930, op |-> "SetShaderTexture", args |-> <<"Mirror">>],
    [line |-> 931, op |-> "SetTextureUVScale", args |-> <<1000000, 1000000>>],
    [line |-> 932, op |-> "Draw", args |-> <<"DrawBoxMesh">>],
    [line |-> 940, op |-> "scaleXYZ", args |-> <<6400000, 325000, 500000>>],
    [line |-> 941, op |-> "positionXYZ", args |-> <<0, 5660000, -445000>>],
    [line |-> 942, op |-> "SetTransformations", args |-> <<0, 0, 0>>],
    [line |-> 943, op |-> "SetShaderColor", args |-> <<50000, 50000, 50000, 1000000>>],
    [line |-> 944, op |-> "Draw", args |-> <<"DrawBoxMesh">>],
    [line |-> 949, op |-> "scaleXYZ", args |-> <<6400000, 325000, 500000>>],
    [line |-> 950, op |-> "positionXYZ", args |-> <<0, 5660000, -5550000>>],
    [line |-> 951, op |-> "SetTransformations", args |-> <<0, 0, 0>>],
    [line |-> 952, op |-> "SetShaderColor", args |-> <<50000, 50000, 50000, 1000000>>],
    [line |-> 953, op |-> "Draw", args |-> <<"DrawBoxMesh">>],
    [line |-> 958, op |-> "scaleXYZ", args |-> <<410000, 325000, 4700000>>],
    [line |-> 959, op |-> "positionXYZ", args |-> <<-3000000, 5660000, -3000000>>],
    [line |-> 960, op |-> "SetTransformations", args |-> <<0, 0, 0>>],
    [line |-> 961, op |-> "SetShaderColor", args |-> <<50000, 50000, 50000, 1000000>>],
    [line |-> 962, op |-> "Draw", args |-> <<"DrawBoxMesh">>],
    [line |-> 967, op |-> "positionXYZ", args |-> <<3000000, 5660000, -3000000>>],
    [line |-> 968, op |-> "SetTransformations", args |-> <<0, 0, 0>>],
    [line |-> 969, op |-> "SetShaderColor", args |-> <<50000, 50000, 50000, 1000000>>],
    [line |-> 970, op |-> "Draw", args |-> <<"DrawBoxMesh">>],
    [line |-> 978, op |-> "scaleXYZ", args |-> <<200000, 4500000, 500000>>],
    [line |-> 979, op |-> "positionXYZ", args |-> <<-3000000, 3250000, -650000>>],
    [line |-> 980, op |-> "SetTransformations", args |-> <<0, 0, 0>>],
    [line |-> 981, op |-> "SetShaderColor", args |-> <<50000, 50000, 50000, 1000000>>],
    [line |-> 982, op |-> "Draw", args |-> <<"DrawBoxMesh">>],
    [line |-> 987, op |-> "positionXYZ", args |-> <<3000000, 3250000, -650000>>],
    [line |-> 988, op |-> "SetTransformations", args |-> <<0, 0, 0>>],
    [line |-> 989, op |-> "SetShaderColor", args |-> <<50000, 50000, 50000, 1000000>>],
    [line |-> 990, op |-> "Draw", args |-> <<"DrawBoxMesh">>],
    [line |-> 994, op |-> "scaleXYZ", args |-> <<6000000, 200000, 100000>>],
    [line |-> 995, op |-> "positionXYZ", args |-> <<0, 1100000, -450000>>],
    [line |-> 996, op |-> "SetTransformations", args |-> <<0, 0, 0>>],
    [line |-> 997, op |-> "SetShaderColor", args |-> <<50000, 50000, 50000, 1000000>>],
    [line |-> 998, op |-> "Draw", args |-> <<"DrawBoxMesh">>],
    [line |-> 1006, op |-> "scaleXYZ", args |-> <<200000, 500000, 4200000>>],
    [line |-> 1007, op |-> "positionXYZ", args |-> <<3000000, 5300000, -3000000>>],
    [line |-> 1008, op |-> "SetTransformations", args |-> <<0, 0, 0>>],
    [line |-> 1009, op |-> "SetShaderColor", args |-> <<50000, 50000, 50000, 1000000>>],
    [line |-> 1010, op |-> "Draw", args |-> <<"DrawBoxMesh">>],
    [line |-> 1015, op |-> "scaleXYZ", args |-> <<200000, 4500000, 500000>>],
    [line |-> 1016, op |-> "positionXYZ", args |-> <<3000000, 3250000, -5350000>>],
    [line |-> 1017, op |-> "SetTransformations", args |-> <<0, 0, 0>>],
    [line |-> 1018, op |-> "SetShaderColor", args |-> <<50000, 50000, 50000, 1000000>>],
    [line |-> 1019, op |-> "Draw", args |-> <<"DrawBoxMesh">>],
    [line |-> 1024, op |-> "scaleXYZ", args |-> <<200000, 500000, 4200000>>],
    [line |-> 1025, op |-> "positionXYZ", args |-> <<3000000, 1250000, -3000000>>],
    [line |-> 1026, op |-> "SetTransformations", args |-> <<0, 0, 0>>],
    [line |-> 1027, op |-> "SetShaderColor", args |-> <<50000, 50000, 50000, 1000000>>],
    [line |-> 1028, op |-> "Draw", args |-> <<"DrawBoxMesh">>],
    [line |-> 1036, op |-> "scaleXYZ", args |-> <<200000, 500000, 4200000>>],
    [line |-> 1037, op |-> "positionXYZ", args |-> <<-3000000, 5300000, -3000000>>],
    [line |-> 1038, op |-> "SetTransformations", args |-> <<0, 0, 0>>],
    [line |-> 1039, op |-> "SetShaderColor", args |-> <<50000, 50000, 50000, 1000000>>],
    [line |-> 1040, op |-> "Draw", args |-> <<"DrawBoxMesh">>],
    [line |-> 1045, op |-> "scaleXYZ", args |-> <<200000, 4500000, 500000>>],
    [line |-> 1046, op |-> "positionXYZ", args |-> <<-3000000, 3250000, -5350000>>],
    [line |-> 1047, op |-> "SetTransformations", args |-> <<0, 0, 0>>],
    [line |-> 1048, op |-> "SetShaderColor", args |-> <<50000, 50000, 50000, 1000000>>],
    [line |-> 1049, op |-> "Draw", args |-> <<"DrawBoxMesh">>],
    [line |-> 1054, op |-> "scaleXYZ", args |-> <<200000, 500000, 4200000>>],
    [line |-> 1055, op |-> "positionXYZ", args |-> <<-3000000, 1250000, -3000000>>],
    [line |-> 1056, op |-> "SetTransformations", args |-> <<0, 0, 0>>],
    [line |-> 1057, op |-> "SetShaderColor", args |-> <<50000, 50000, 50000, 1000000>>],
    [line |-> 1058, op |-> "Draw", args |-> <<"DrawBoxMesh">>],
    [line |-> 1066, op |-> "scaleXYZ", args |-> <<200000, 4300000, 100000>>],
    [line |-> 1067, op |-> "positionXYZ", args |-> <<-2200000, 3350000, -450000>>],
    [line |-> 1068, op |-> "SetTransformations", args |-> <<0, 0, 0>>],
    [line |-> 1069, op |-> "SetShaderColor", args |-> <<50000, 50000, 50000, 1000000>>],
    [line |-> 1070, op |-> "Draw", args |-> <<"DrawBoxMesh">>],
    [line |-> 1075, op |-> "positionXYZ", args |-> <<2200000, 3350000, -450000>>],
    [line |-> 1076, op |-> "SetTransformations", args |-> <<0, 0, 0>>],
    [line |-> 1077, op |-> "SetShaderColor", args |-> <<50000, 50000, 50000, 1000000>>],
    [line |-> 1078, op |-> "Draw", args |-> <<"DrawBoxMesh">>],
    [line |-> 1086, op |-> "scaleXYZ", args |-> <<4200000, 200000, 100000>>],
    [line |-> 1087, op |-> "positionXYZ", args |-> <<0, 5100000, -450000>>],
    [line |-> 1088, op |-> "SetTransformations", args |-> <<0, 0, 0>>],
    [line |-> 1089, op |-> "SetShaderColor", args |-> <<50000, 50000, 50000, 1000000>>],
    [line |-> 1090, op |-> "Draw", args |-> <<"DrawBoxMesh">>],
    [line |-> 1095, op |-> "positionXYZ", args |-> <<0, 1600000, -450000>>],
    [line |-> 1096, op |-> "SetTransformations", args |-> <<0, 0, 0>>],
    [line |-> 1097, op |-> "SetShaderColor", args |-> <<50000, 50000, 50000, 1000000>>],
    [line |-> 1098, op |-> "Draw", args |-> <<"DrawBoxMesh">>],
    [line |-> 1108, op |-> "scaleXYZ", args |-> <<300000, 2700000, 100000>>],
    [line |-> 1109, op |-> "positionXYZ", args |-> <<-2000000, 3350000, -450000>>],
    [line |-> 1110, op |-> "SetTransformations", args |-> <<0, 0, 0>>],
    [line |-> 1111, op |-> "SetShaderColor", args |-> <<50000, 50000, 50000, 1000000>>],
    [line |-> 1112, op |-> "Draw", args |-> <<"DrawBoxMesh">>],
    [line |-> 1117, op |-> "positionXYZ", args |-> <<-100000, 3350000, -450000>>],
    [line |-> 1118, op |-> "SetTransformations", args |-> <<0, 0, 0>>],
    [line |-> 1119, op |-> "SetShaderColor", args |-> <<50000, 50000, 50000, 1000000>>],
    [line |-> 1120, op |-> "Draw", args |-> <<"DrawBoxMesh">>],
    [line |-> 1125, op |-> "scaleXYZ", args |-> <<2200000, 300000, 100000>>],
    [line |-> 1126, op |-> "positionXYZ", args |-> <<-1100000, 4840000, -450000>>],
    [line |-> 1127, op |-> "SetTransformations", args |-> <<0, 0, 0>>],
    [line |-> 1128, op |-> "SetShaderColor", args |-> <<50000, 50000, 50000, 1000000>>],
    [line |-> 1129, op |-> "Draw", args |-> <<"DrawBoxMesh">>],
    [line |-> 1134, op |-> "positionXYZ", args |-> <<-1100000, 1860000, -450000>>],
    [line |-> 1135, op |-> "SetTransformations", args |-> <<0, 0, 0>>],
    [line |-> 1136, op |-> "SetShaderColor", args |-> <<50000, 50000, 50000, 1000000>>],
    [line |-> 1137, op |-> "Draw", args |-> <<"DrawBoxMesh">>],
    [line |-> 1145, op |-> "scaleXYZ", args |-> <<300000, 2700000, 100000>>],
    [line |-> 1146, op |-> "positionXYZ", args |-> <<100000, 3350000, -450000>>],
    [line |-> 1147, op |-> "SetTransformations", args |-> <<0, 0, 0>>],
    [line |-> 1148, op |-> "SetShaderColor", args |-> <<50000, 50000, 50000, 1000000>>],
    [line |-> 1149, op |-> "Draw", args |-> <<"DrawBoxMesh">>],
    [line |-> 1154, op |-> "positionXYZ", args |-> <<2000000, 3350000, -450000>>],
    [line |-> 1155, op |-> "SetTransformations", args |-> <<0, 0, 0>>],
    [line |-> 1156, op |-> "SetShaderColor", args |-> <<50000, 50000, 50000, 1000000>>],
    [line |-> 1157, op |-> "Draw", args |-> <<"DrawBoxMesh">>],
    [line |-> 1162, op |-> "scaleXYZ", args |-> <<2200000, 300000, 100000>>],
    [line |-> 1163, op |-> "positionXYZ", args |-> <<1100000, 4840000, -450000>>],
    [line |-> 1164, op |-> "SetTransformations", args |-> <<0, 0, 0>>],
    [line |-> 1165, op |-> "SetShaderColor", args |-> <<50000, 50000, 50000, 1000000>>],
    [line |-> 1166, op |-> "Draw", args |-> <<"DrawBoxMesh">>],
    [line |-> 1171, op |-> "positionXYZ", args |-> <<1100000, 1860000, -450000>>],
    [line |-> 1172, op |-> "SetTransformations", args |-> <<0, 0, 0>>],
    [line |-> 1173, op |-> "SetShaderColor", args |-> <<50000, 50000, 50000, 1000000>>],
    [line |-> 1174, op |-> "Draw", args |-> <<"DrawBoxMesh">>],
    [line |-> 1180, op |-> "scaleXYZ", args |-> <<400000, 400000, 250000>>],
    [line |-> 1181, op |-> "positionXYZ", args |-> <<-1100000, 3350000, -450000>>],
    [line |-> 1182, op |-> "SetTransformations", args |-> <<0, 0, 0>>],
    [line |-> 1183, op |-> "SetShaderColor", args |-> <<50000, 50000, 50000, 1000000>>],
    [line |-> 1184, op |-> "Draw", args |-> <<"DrawTorusMesh">>],
    [line |-> 1187, op |-> "positionXYZ", args |-> <<1100000, 3350000, -450000>>],
    [line |-> 1188, op |-> "SetTransformations", args |-> <<0, 0, 0>>],
    [line |-> 1189, op |-> "SetShaderColor", args |-> <<50000, 50000, 50000, 1000000>>],
    [line |-> 1190, op |-> "Draw", args |-> <<"DrawTorusMesh">>],
    [line |-> 1200, op |-> "scaleXYZ", args |-> <<200000, 1100000, 100000>>],
    [line |-> 1201, op |-> "positionXYZ", args |-> <<-1100000, 4300000, -450000>>],
    [line |-> 1202, op |-> "SetTransformations", args |-> <<0, 0, 0>>],
    [line |-> 1203, op |-> "SetShaderColor", args |-> <<50000, 50000, 50000, 1000000>>],
    [line |-> 1204, op |-> "Draw", args |-> <<"DrawBoxMesh">>],
    [line |-> 1209, op |-> "positionXYZ", args |-> <<-1100000, 2400000, -450000>>],
    [line |-> 1210, op |-> "SetTransformations", args |-> <<0, 0, 0>>],
    [line |-> 1211, op |-> "SetShaderColor", args |-> <<50000, 50000, 50000, 1000000>>],
    [line |-> 1212, op |-> "Draw", args |-> <<"DrawBoxMesh">>],
    [line |-> 1217, op |-> "scaleXYZ", args |-> <<400000, 200000, 100000>>],
    [line |-> 1218, op |-> "positionXYZ", args |-> <<-1750000, 3350000, -450000>>],
    [line |-> 1219, op |-> "SetTransformations", args |-> <<0, 0, 0>>],
    [line |-> 1220, op |-> "SetShaderColor", args |-> <<50000, 50000, 50000, 1000000>>],
    [line |-> 1221, op |-> "Draw", args |-> <<"DrawBoxMesh">>],
    [line |-> 1226, op |-> "positionXYZ", args |-> <<-450000, 3350000, -450000>>],
    [line |-> 1227, op |-> "SetTransformations", args |-> <<0, 0, 0>>],
    [line |-> 1228, op |-> "SetShaderColor", args |-> <<50000, 50000, 50000, 1000000>>],
    [line |-> 1229, op |-> "Draw", args |-> <<"DrawBoxMesh">>],
    [line |-> 1237, op |-> "scaleXYZ", args |-> <<200000, 1100000, 100000>>],
    [line |-> 1238, op |-> "positionXYZ", args |-> <<1100000, 4300000, -450000>>],
    [line |-> 1239, op |-> "SetTransformations", args |-> <<0, 0, 0>>],
    [line |-> 1240, op |-> "SetShaderColor", args |-> <<50000, 50000, 50000, 1000000>>],
    [line |-> 1241, op |-> "Draw", args |-> <<"DrawBoxMesh">>],
    [line |-> 1246, op |-> "positionXYZ", args |-> <<1100000, 2400000, -450000>>],
    [line |-> 1247, op |-> "SetTransformations", args |-> <<0, 0, 0>>],
    [line |-> 1248, op |-> "SetShaderColor", args |-> <<50000, 50000, 50000, 1000000>>],
    [line |-> 1249, op |-> "Draw", args |-> <<"DrawBoxMesh">>],
    [line |-> 1254, op |-> "scaleXYZ", args |-> <<400000, 200000, 100000>>],
    [line |-> 1255, op |-> "positionXYZ", args |-> <<1750000, 3350000, -450000>>],
    [line |-> 1256, op |-> "SetTransformations", args |-> <<0, 0, 0>>],
    [line |-> 1257, op |-> "SetShaderColor", args |-> <<50000, 50000, 50000, 1000000>>],
    [line |-> 1258, op |-> "Draw", args |-> <<"DrawBoxMesh">>],
    [line |-> 1263, op |-> "positionXYZ", args |-> <<450000, 3350000, -450000>>],
    [line |-> 1264, op |-> "SetTransformations", args |-> <<0, 0, 0>>],
    [line |-> 1265, op |-> "SetShaderColor", args |-> <<50000, 50000, 50000, 1000000>>],
    [line |-> 1266, op |-> "Draw", args |-> <<"DrawBoxMesh">>],
    [line |-> 1274, op |-> "scaleXYZ", args |-> <<150000, 150000, 150000>>],
    [line |-> 1275, op |-> "positionXYZ", args |-> <<-125000, 3300000, -435000>>],
    [line |-> 1276, op |-> "SetTransformations", args |-> <<20000000, 0, 180000000>>],
    [line |-> 1277, op |-> "SetShaderColor", args |-> <<850000, 650000, 200000, 1000000>>],
    [line |-> 1278, op |-> "Draw", args |-> <<"DrawPyramid3Mesh">>],
    [line |-> 1283, op |-> "scaleXYZ", args |-> <<150000, 150000, 150000>>],
    [line |-> 1284, op |-> "positionXYZ", args |-> <<-125000, 3350000, -435000>>],
    [line |-> 1285, op |-> "SetTransformations", args |-> <<20000000, 0, 0>>],
    [line |-> 1286, op |-> "SetShaderColor", args |-> <<850000, 650000, 200000, 1000000>>],
    [line |-> 1287, op |-> "Draw", args |-> <<"DrawPyramid3Mesh">>],
    [line |-> 1295, op |-> "scaleXYZ", args |-> <<150000, 150000, 150000>>],
    [line |-> 1296, op |-> "positionXYZ", args |-> <<125000, 3300000, -435000>>],
    [line |-> 1297, op |-> "SetTransformations", args |-> <<20000000, 0, 180000000>>],
    [line |-> 1298, op |-> "SetShaderColor", args |-> <<850000, 650000, 200000, 1000000>>],
    [line |-> 1299, op |-> "Draw", args |-> <<"DrawPyramid3Mesh">>],
    [line |-> 1304, op |-> "scaleXYZ", args |-> <<150000, 150000, 150000>>],
    [line |-> 1305, op |-> "positionXYZ", args |-> <<125000, 3350000, -435000>>],
    [line |-> 1306, op |-> "SetTransformations", args |-> <<20000000, 0, 0>>],
    [line |-> 1307, op |-> "SetShaderColor", args |-> <<850000, 650000, 200000, 1000000>>],
    [line |-> 1308, op |-> "Draw", args |-> <<"DrawPyramid3Mesh">>],
    [line |-> 1313, op |-> "scaleXYZ", args |-> <<20000, 20000, 20000>>],
    [line |-> 1314, op |-> "SetShaderColor", args |-> <<850000, 650000, 200000, 1000000>>],
    [line |-> 1317, op |-> "positionXYZ", args |-> <<-185000, 3390000, -400000>>],
    [line |-> 1318, op |-> "SetTransformations", args |-> <<0, 0, 0>>],
    [line |-> 1319, op |-> "Draw", args |-> <<"DrawSphereMesh">>],
    [line |-> 1322, op |-> "positionXYZ", args |-> <<-60000, 3390000, -400000>>],
    [line |-> 1323, op |-> "SetTransformations", args |-> <<0, 0, 0>>],
    [line |-> 1324, op |-> "Draw", args |-> <<"DrawSphereMesh">>],
    [line |-> 1327, op |-> "positionXYZ", args |-> <<-190000, 3260000, -400000>>],
    [line |-> 1328, op |-> "SetTransformations", args |-> <<0, 0, 0>>],
    [line |-> 1329, op |-> "Draw", args |-> <<"DrawSphereMesh">>],
    [line |-> 1332, op |-> "positionXYZ", args |-> <<-60000, 3260000, -400000>>],
    [line |-> 1333, op |-> "SetTransformations", args |-> <<0, 0, 0>>],
    [line |-> 1334, op |-> "Draw", args |-> <<"DrawSphereMesh">>],
    [line |-> 1339, op |-> "scaleXYZ", args |-> <<20000, 20000, 20000>>],
    [line |-> 1340, op |-> "SetShaderColor", args |-> <<850000, 650000, 200000, 1000000>>],
    [line |-> 1343, op |-> "positionXYZ", args |-> <<60000, 3390000, -400000>>],
    [line |-> 1344, op |-> "SetTransformations", args |-> <<0, 0, 0>>],
    [line |-> 1345, op |-> "Draw", args |-> <<"DrawSphereMesh">>],
    [line |-> 1348, op |-> "positionXYZ", args |-> <<185000, 3390000, -400000>>],
    [line |-> 1349, op |-> "SetTransformations", args |-> <<0, 0, 0>>],
    [line |-> 1350, op |-> "Draw", args |-> <<"DrawSphereMesh">>],
    [line |-> 1353, op |-> "positionXYZ", args |-> <<60000, 3260000, -400000>>],
    [line |-> 1354, op |-> "SetTransformations", args |-> <<0, 0, 0>>],
    [line |-> 1355, op |-> "Draw", args |-> <<"DrawSphereMesh">>],
    [line |-> 1358, op |-> "positionXYZ", args |-> <<185000, 3260000, -400000>>],
    [line |-> 1359, op |-> "SetTransformations", args |-> <<0, 0, 0>>],
    [line |-> 1360, op |-> "Draw", args |-> <<"DrawSphereMesh">>],
    [line |-> 1371, op |-> "scaleXYZ", args |-> <<5000, 30000, 5000>>],
    [line |-> 1372, op |-> "positionXYZ", args |-> <<-130000, 3330000, -390000>>],
    [line |-> 1373, op |-> "SetTransformations", args |-> <<90000000, 0, 0>>],
    [line |-> 1374, op |-> "SetShaderColor", args |-> <<850000, 650000, 200000, 1000000>>],
    [line |-> 1375, op |-> "Draw", args |-> <<"DrawCylinderMesh">>],
    [line |-> 1380, op |-> "scaleXYZ", args |-> <<5000, 5000, 5000>>],
    [line |-> 1381, op |-> "positionXYZ", args |-> <<-130000, 3330000, -360000>>],
    [line |-> 1382, op |-> "SetTransformations", args |-> <<180000000, 90000000, 0>>],
    [line |-> 1383, op |-> "SetShaderColor", args |-> <<850000, 650000, 200000, 1000000>>],
    [line |-> 1384, op |-> "Draw", args |-> <<"DrawTorusMesh">>],
    [line |-> 1389, op |-> "scaleXYZ", args |-> <<5500, 5500, 5500>>],
    [line |-> 1390, op |-> "positionXYZ", args |-> <<-130000, 3330000, -360000>>],
    [line |-> 1391, op |-> "SetTransformations", args |-> <<0, 0, 0>>],
    [line |-> 1392, op |-> "SetShaderColor", args |-> <<850000, 650000, 200000, 1000000>>],
    [line |-> 1393, op |-> "Draw", args |-> <<"DrawSphereMesh">>],
    [line |-> 1402, op |-> "scaleXYZ", args |-> <<5000, 30000, 5000>>],
    [line |-> 1403, op |-> "positionXYZ", args |-> <<-120000, 3330000, -390000>>],
    [line |-> 1404, op |-> "SetTransformations", args |-> <<90000000, 0, 0>>],
    [line |-> 1405, op |-> "SetShaderColor", args |-> <<850000, 650000, 200000, 1000000>>],
    [line |-> 1406, op |-> "Draw", args |-> <<"DrawCylinderMesh">>],
    [line |-> 1411, op |-> "scaleXYZ", args |-> <<5000, 5000, 5000>>],
    [line |-> 1412, op |-> "positionXYZ", args |-> <<-120000, 3330000, -360000>>],
    [line |-> 1413, op |-> "SetTransformations", args |-> <<180000000, 90000000, 0>>],
    [line |-> 1414, op |-> "SetShaderColor", args |-> <<850000, 650000, 200000, 1000000>>],
    [line |-> 1415, op |-> "Draw", args |-> <<"DrawTorusMesh">>],
    [line |-> 1420, op |-> "scaleXYZ", args |-> <<5500, 5500, 5500>>],
    [line |-> 1421, op |-> "positionXYZ", args |-> <<-120000, 3330000, -360000>>],
    [line |-> 1422, op |-> "SetTransformations", args |-> <<0, 0, 0>>],
    [line |-> 1423, op |-> "SetShaderColor", args |-> <<850000, 650000, 200000, 1000000>>],
    [line |-> 1424, op |-> "Draw", args |-> <<"DrawSphereMesh">>],
    [line |-> 1429, op |-> "scaleXYZ", args |-> <<6000, 6000, 6000>>],
    [line |-> 1430, op |-> "positionXYZ", args |-> <<-125000, 3328000, -360000>>],
    [line |-> 1431, op |-> "SetTransformations", args |-> <<180000000, 90000000, 0>>],
    [line |-> 1432, op |-> "SetShaderColor", args |-> <<850000, 650000, 200000, 1000000>>],
    [line |-> 1433, op |-> "Draw", args |-> <<"DrawTorusMesh">>],
    [line |-> 1438, op |-> "scaleXYZ", args |-> <<20000, 110000, 1>>],
    [line |-> 1439, op |-> "positionXYZ", args |-> <<-125000, 3215000, -360000>>],
    [line |-> 1440, op |-> "SetTransformations", args |-> <<0, 0, 0>>],
    [line |-> 1441, op |-> "SetShaderColor", args |-> <<850000, 650000, 200000, 1000000>>],
    [line |-> 1442, op |-> "Draw", args |-> <<"DrawTaperedCylinderMesh">>],
    [line |-> 1450, op |-> "scaleXYZ", args |-> <<4000, 25000, 4000>>],
    [line |-> 1451, op |-> "positionXYZ", args |-> <<-112000, 3220000, -356000>>],
    [line |-> 1452, op |-> "SetTransformations", args |-> <<0, 0, 90000000>>],
    [line |-> 1453, op |-> "SetShaderColor", args |-> <<850000, 650000, 200000, 1000000>>],
    [line |-> 1454, op |-> "Draw", args |-> <<"DrawCylinderMesh">>],
    [line |-> 1459, op |-> "scaleXYZ", args |-> <<4500, 4500, 4500>>],
    [line |-> 1460, op |-> "positionXYZ", args |-> <<-138000, 3220000, -356000>>],
    [line |-> 1461, op |-> "SetTransformations", args |-> <<0, 0, 0>>],
    [line |-> 1462, op |-> "SetShaderColor", args |-> <<850000, 650000, 200000, 1000000>>],
    [line |-> 1463, op |-> "Draw", args |-> <<"DrawSphereMesh">>],
    [line |-> 1468, op |-> "scaleXYZ", args |-> <<4500, 4500, 4500>>],
    [line |-> 1469, op |-> "positionXYZ", args |-> <<-114000, 3220000, -356000>>],
    [line |-> 1470, op |-> "SetTransformations", args |-> <<0, 0, 0>>],
    [line |-> 1471, op |-> "SetShaderColor", args |-> <<850000, 650000, 200000, 1000000>>],
    [line |-> 1472, op |-> "Draw", args |-> <<"DrawSphereMesh">>],
    [line |-> 1483, op |-> "scaleXYZ", args |-> <<5000, 30000, 5000>>],
    [line |-> 1484, op |-> "positionXYZ", args |-> <<130000, 3330000, -390000>>],
    [line |-> 1485, op |-> "SetTransformations", args |-> <<90000000, 0, 0>>],
    [line |-> 1486, op |-> "SetShaderColor", args |-> <<850000, 650000, 200000, 1000000>>],
    [line |-> 1487, op |-> "Draw", args |-> <<"DrawCylinderMesh">>],
    [line |-> 1492, op |-> "scaleXYZ", args |-> <<5000, 5000, 5000>>],
    [line |-> 1493, op |-> "positionXYZ", args |-> <<130000, 3330000, -360000>>],
    [line |-> 1494, op |-> "SetTransformations", args |-> <<180000000, 90000000, 0>>],
    [line |-> 1495, op |-> "SetShaderColor", args |-> <<850000, 650000, 200000, 1000000>>],
    [line |-> 1496, op |-> "Draw", args |-> <<"DrawTorusMesh">>],
    [line |-> 1501, op |-> "scaleXYZ", args |-> <<5500, 5500, 5500>>],
    [line |-> 1502, op |-> "positionXYZ", args |-> <<130000, 3330000, -360000>>],
    [line |-> 1503, op |-> "SetTransformations", args |-> <<0, 0, 0>>],
    [line |-> 1504, op |-> "SetShaderColor", args |-> <<850000, 650000, 200000, 1000000>>],
    [line |-> 1505, op |-> "Draw", args |-> <<"DrawSphereMesh">>],
    [line |-> 1514, op |-> "scaleXYZ", args |-> <<5000, 30000, 5000>>],
    [line |-> 1515, op |-> "positionXYZ", args |-> <<120000, 3330000, -390000>>],
    [line |-> 1516, op |-> "SetTransformations", args |-> <<90000000, 0, 0>>],
    [line |-> 1517, op |-> "SetShaderColor", args |-> <<850000, 650000, 200000, 1000000>>],
    [line |-> 1518, op |-> "Draw", args |-> <<"DrawCylinderMesh">>],
    [line |-> 1523, op |-> "scaleXYZ", args |-> <<5000, 5000, 5000>>],
    [line |-> 1524, op |-> "positionXYZ", args |-> <<120000, 3330000, -360000>>],
    [line |-> 1525, op |-> "SetTransformations", args |-> <<180000000, 90000000, 0>>],
    [line |-> 1526, op |-> "SetShaderColor", args |-> <<850000, 650000, 200000, 1000000>>],
    [line |-> 1527, op |-> "Draw", args |-> <<"DrawTorusMesh">>],
    [line |-> 1532, op |-> "scaleXYZ", args |-> <<5500, 5500, 5500>>],
    [line |-> 1533, op |-> "positionXYZ", args |-> <<120000, 3330000, -360000>>],
    [line |-> 1534, op |-> "SetTransformations", args |-> <<0, 0, 0>>],
    [line |-> 1535, op |-> "SetShaderColor", args |-> <<850000, 650000, 200000, 1000000>>],
    [line |-> 1536, op |-> "Draw", args |-> <<"DrawSphereMesh">>],
    [line |-> 1541, op |-> "scaleXYZ", args |-> <<6000, 6000, 6000>>],
    [line |-> 1542, op |-> "positionXYZ", args |-> <<125000, 3328000, -360000>>],
    [line |-> 1543, op |-> "SetTransformations", args |-> <<180000000, 90000000, 0>>],
    [line |-> 1544, op |-> "SetShaderColor", args |-> <<850000, 650000, 200000, 1000000>>],
    [line |-> 1545, op |-> "Draw", args |-> <<"DrawTorusMesh">>],
    [line |-> 1550, op |-> "scaleXYZ", args |-> <<20000, 110000, 1>>],
    [line |-> 1551, op |-> "positionXYZ", args |-> <<125000, 3215000, -360000>>],
    [line |-> 1552, op |-> "SetTransformations", args |-> <<0, 0, 0>>],
    [line |-> 1553, op |-> "SetShaderColor", args |-> <<850000, 650000, 200000, 1000000>>],
    [line |-> 1554, op |-> "Draw", args |-> <<"DrawTaperedCylinderMesh">>],
    [line |-> 1562, op |-> "scaleXYZ", args |-> <<4000, 25000, 4000>>],
    [line |-> 1563, op |-> "positionXYZ", args |-> <<140000, 3220000, -356000>>],
    [line |-> 1564, op |-> "SetTransformations", args |-> <<0, 0, 90000000>>],
    [line |-> 1565, op |-> "SetShaderColor", args |-> <<850000, 650000, 200000, 1000000>>],
    [line |-> 1566, op |-> "Draw", args |-> <<"DrawCylinderMesh">>],
    [line |-> 1571, op |-> "scaleXYZ", args |-> <<4500, 4500, 4500>>],
    [line |-> 1572, op |-> "positionXYZ", args |-> <<138000, 3220000, -356000>>],
    [line |-> 1573, op |-> "SetTransformations", args |-> <<0, 0, 0>>],
    [line |-> 1574, op |-> "SetShaderColor", args |-> <<850000, 650000, 200000, 1000000>>],
    [line |-> 1575, op |-> "Draw", args |-> <<"DrawSphereMesh">>],
    [line |-> 1580, op |-> "scaleXYZ", args |-> <<4500, 4500, 4500>>],
    [line |-> 1581, op |-> "positionXYZ", args |-> <<114000, 3220000, -356000>>],
    [line |-> 1582, op |-> "SetTransformations", args |-> <<0, 0, 0>>],
    [line |-> 1583, op |-> "SetShaderColor", args |-> <<850000, 650000, 200000, 1000000>>],
    [line |-> 1584, op |-> "Draw", args |-> <<"DrawSphereMesh">>],
    [line |-> 1592, op |-> "scaleXYZ", args |-> <<3600000, 1300000, 3000000>>],
    [line |-> 1593, op |-> "positionXYZ", args |-> <<0, 6450000, -3500000>>],
    [line |-> 1594, op |-> "SetTransformations", args |-> <<0, 0, 0>>],
    [line |-> 1595, op |-> "SetShaderMaterial", args |-> <<"chevronMat">>],
    [line |-> 1596, op |-> "SetShaderTexture", args |-> <<"ChevronFur">>],
    [line |-> 1597, op |-> "SetTextureUVScale", args |-> <<2000000, 1000000>>],
    [line |-> 1598, op |-> "Draw", args |-> <<"DrawBoxMesh">>],
    [line |-> 1604, op |-> "scaleXYZ", args |-> <<3600000, 300000, 3000000>>],
    [line |-> 1605, op |-> "positionXYZ", args |-> <<0, 7250000, -3500000>>],
    [line |-> 1606, op |-> "SetTransformations", args |-> <<0, 0, 0>>],
    [line |-> 1607, op |-> "SetShaderMaterial", args |-> <<"boxFurMat">>],
    [line |-> 1608, op |-> "SetShaderTexture", args |-> <<"BoxFur">>],
    [line |-> 1609, op |-> "SetTextureUVScale", args |-> <<1000000, 1000000>>],
    [line |-> 1610, op |-> "Draw", args |-> <<"DrawBoxMesh">>],
    [line |-> 1617, op |-> "scaleXYZ", args |-> <<1150000, 100000, 1150000>>],
    [line |-> 1618, op |-> "positionXYZ", args |-> <<0, 7350000, -3500000>>],
    [line |-> 1619, op |-> "SetTransformations", args |-> <<0, 0, 0>>],
    [line |-> 1621, op |-> "SetShaderMaterial", args |-> <<"copper">>],
    [line |-> 1622, op |-> "SetShaderTexture", args |-> <<"Copper">>],
    [line |-> 1623, op |-> "SetTextureUVScale", args |-> <<1600000, 1600000>>],
    [line |-> 1624, op |-> "setVec4Value", args |-> <<"objectColor", <<1000000, 1000000, 1000000, 1000000>>>>],
    [line |-> 1625, op |-> "Draw", args |-> <<"DrawCylinderMesh">>],
    [line |-> 1630, op |-> "scaleXYZ", args |-> <<1100000, 300000, 1100000>>],
    [line |-> 1631, op |-> "positionXYZ", args |-> <<0, 7410000, -3500000>>],
    [line |-> 1632, op |-> "SetTransformations", args |-> <<0, 0, 0>>],
    [line |-> 1634, op |-> "SetShaderMaterial", args |-> <<"copper">>],
    [line |-> 1636, op |-> "SetShaderTexture", args |-> <<"Copper">>],
    [line |-> 1637, op |-> "SetTextureUVScale", args |-> <<1400000, 1400000>>],
    [line |-> 1638, op |-> "setVec4Value", args |-> <<"objectColor", <<1000000, 1000000, 1000000, 1000000>>>>],
    [line |-> 1639, op |-> "Draw", args |-> <<"DrawCylinderMesh">>],
    [line |-> 1644, op |-> "scaleXYZ", args |-> <<900000, 100000, 900000>>],
    [line |-> 1645, op |-> "positionXYZ", args |-> <<0, 7710000, -3500000>>],
    [line |-> 1646, op |-> "SetTransformations", args |-> <<0, 0, 0>>],
    [line |-> 1648, op |-> "SetShaderMaterial", args |-> <<"copper">>],
    [line |-> 1650, op |-> "SetShaderTexture", args |-> <<"Copper">>],
    [line |-> 1651, op |-> "SetTextureUVScale", args |-> <<1700000, 1700000>>],
    [line |-> 1652, op |-> "setVec4Value", args |-> <<"objectColor", <<1000000, 1000000, 1000000, 1000000>>>>],
    [line |-> 1653, op |-> "Draw", args |-> <<"DrawCylinderMesh">>],
    [line |-> 1658, op |-> "scaleXYZ", args |-> <<625000, 100000, 625000>>],
    [line |-> 1659, op |-> "positionXYZ", args |-> <<0, 7800000, -3500000>>],
    [line |-> 1660, op |-> "SetTransformations", args |-> <<0, 0, 0>>],
    [line |-> 1662, op |-> "SetShaderMaterial", args |-> <<"copper">>],
    [line |-> 1664, op |-> "SetShaderTexture", args |-> <<"Copper">>],
    [line |-> 1665, op |-> "SetTextureUVScale", args |-> <<1800000, 1800000>>],
    [line |-> 1666, op |-> "setVec4Value", args |-> <<"objectColor", <<1000000, 1000000, 1000000, 1000000>>>>],
    [line |-> 1667, op |-> "Draw", args |-> <<"DrawCylinderMesh">>],
    [line |-> 1672, op |-> "scaleXYZ", args |-> <<550000, 550000, 550000>>],
    [line |-> 1673, op |-> "positionXYZ", args |-> <<0, 7940000, -3500000>>],
    [line |-> 1674, op |-> "SetTransformations", args |-> <<90000000, 0, 0>>],
    [line |-> 1676, op |-> "SetShaderMaterial", args |-> <<"copper">>],
    [line |-> 1678, op |-> "SetShaderTexture", args |-> <<"Copper">>],
    [line |-> 1679, op |-> "SetTextureUVScale", args |-> <<1500000, 1500000>>],
    [line |-> 1680, op |-> "setVec4Value", args |-> <<"objectColor", <<1000000, 1000000, 1000000, 1000000>>>>],
    [line |-> 1681, op |-> "Draw", args |-> <<"DrawTorusMesh">>],
    [line |-> 1686, op |-> "scaleXYZ", args |-> <<560000, 50000, 560000>>],
    [line |-> 1687, op |-> "positionXYZ", args |-> <<0, 8050000, -3500000>>],
    [line |-> 1688, op |-> "SetTransformations", args |-> <<0, 0, 0>>],
    [line |-> 1690, op |-> "SetShaderMaterial", args |-> <<"copper">>],
    [line |-> 1692, op |-> "SetShaderTexture", args |-> <<"Copper">>],
    [line |-> 1693, op |-> "SetTextureUVScale", args |-> <<2000000, 2000000>>],
    [line |-> 1694, op |-> "setVec4Value", args |-> <<"objectColor", <<1000000, 1000000, 1000000, 1000000>>>>],
    [line |-> 1695, op |-> "Draw", args |-> <<"DrawCylinderMesh">>],
    [line |-> 1700, op |-> "scaleXYZ", args |-> <<400000, 200000, 400000>>],
    [line |-> 1701, op |-> "positionXYZ", args |-> <<0, 8100000, -3500000>>],
    [line |-> 1702, op |-> "SetTransformations", args |-> <<0, 0, 0>>],
    [line |-> 1704, op |-> "SetShaderMaterial", args |-> <<"copper">>],
    [line |-> 1706, op |-> "SetShaderTexture", args |-> <<"Copper">>],
    [line |-> 1707, op |-> "SetTextureUVScale", args |-> <<1900000, 1900000>>],
    [line |-> 1708, op |-> "setVec4Value", args |-> <<"objectColor", <<1000000, 1000000, 1000000, 1000000>>>>],
    [line |-> 1709, op |-> "Draw", args |-> <<"DrawCylinderMesh">>],
    [line |-> 1714, op |-> "scaleXYZ", args |-> <<500000, 200000, 500000>>],
    [line |-> 1715, op |-> "positionXYZ", args |-> <<0, 8300000, -3500000>>],
    [line |-> 1716, op |-> "SetTransformations", args |-> <<0, 0, 0>>],
    [line |-> 1718, op |-> "SetShaderMaterial", args |-> <<"copper">>],
    [line |-> 1720, op |-> "SetShaderTexture", args |-> <<"Copper">>],
    [line |-> 1721, op |-> "SetTextureUVScale", args |-> <<1600000, 1600000>>],
    [line |-> 1722, op |-> "setVec4Value", args |-> <<"objectColor", <<1000000, 1000000, 1000000, 1000000>>>>],
    [line |-> 1723, op |-> "Draw", args |-> <<"DrawCylinderMesh">>],
    [line |-> 1728, op |-> "scaleXYZ", args |-> <<350000, 350000, 350000>>],
    [line |-> 1729, op |-> "positionXYZ", args |-> <<0, 8550000, -3500000>>],
    [line |-> 1730, op |-> "SetTransformations", args |-> <<90000000, 0, 0>>],
    [line |-> 1732, op |-> "SetShaderMaterial", args |-> <<"copper">>],
    [line |-> 1734, op |-> "SetShaderTexture", args |-> <<"Copper">>],
    [line |-> 1735, op |-> "SetTextureUVScale", args |-> <<1700000, 1700000>>],
    [line |-> 1736, op |-> "setVec4Value", args |-> <<"objectColor", <<1000000, 1000000, 1000000, 1000000>>>>],
    [line |-> 1737, op |-> "Draw", args |-> <<"DrawTorusMesh">>],
    [line |-> 1742, op |-> "scaleXYZ", args |-> <<600000, 200000, 600000>>],
    [line |-> 1743, op |-> "positionXYZ", args |-> <<0, 8600000, -3500000>>],
    [line |-> 1744, op |-> "SetTransformations", args |-> <<0, 0, 0>>],
    [line |-> 1746, op |-> "SetShaderMaterial", args |-> <<"copper">>],
    [line |-> 1748, op |-> "SetShaderTexture", args |-> <<"Copper">>],
    [line |-> 1749, op |-> "SetTextureUVScale", args |-> <<1800000, 1800000>>],
    [line |-> 1750, op |-> "setVec4Value", args |-> <<"objectColor", <<1000000, 1000000, 1000000, 1000000>>>>],
    [line |-> 1751, op |-> "Draw", args |-> <<"DrawCylinderMesh">>],
    [line |-> 1756, op |-> "scaleXYZ", args |-> <<400000, 200000, 400000>>],
    [line |-> 1757, op |-> "positionXYZ", args |-> <<0, 8800000, -3500000>>],
    [line |-> 1758, op |-> "SetTransformations", args |-> <<0, 0, 0>>],
    [line |-> 1760, op |-> "SetShaderMaterial", args |-> <<"copper">>],
    [line |-> 1762, op |-> "SetShaderTexture", args |-> <<"Copper">>],
    [line |-> 1763, op |-> "SetTextureUVScale", args |-> <<2200000, 2200000>>],
    [line |-> 1764, op |-> "setVec4Value", args |-> <<"objectColor", <<1000000, 1000000, 1000000, 1000000>>>>],
    [line |-> 1765, op |-> "Draw", args |-> <<"DrawCylinderMesh">>],
    [line |-> 1770, op |-> "scaleXYZ", args |-> <<120000, 450000, 120000>>],
    [line |-> 1771, op |-> "positionXYZ", args |-> <<0, 8900000, -3500000>>],
    [line |-> 1772, op |-> "SetTransformations", args |-> <<0, 0, 0>>],
    [line |-> 1773, op |-> "SetShaderColor", args |-> <<0, 0, 0, 1000000>>],
    [line |-> 1774, op |-> "SetShaderMaterial", args |-> <<"plasticBlack">>],
    [line |-> 1775, op |-> "Draw", args |-> <<"DrawCylinderMesh">>],
    [line |-> 1779, op |-> "scaleXYZ", args |-> <<150000, 150000, 150000>>],
    [line |-> 1780, op |-> "positionXYZ", args |-> <<0, 9350000, -3500000>>],
    [line |-> 1781, op |-> "SetTransformations", args |-> <<90000000, 0, 0>>],
    [line |-> 1782, op |-> "SetShaderColor", args |-> <<0, 0, 0, 1000000>>],
    [line |-> 1783, op |-> "SetShaderMaterial", args |-> <<"plasticBlack">>],
    [line |-> 1784, op |-> "Draw", args |-> <<"DrawTorusMesh">>],
    [line |-> 1788, op |-> "scaleXYZ", args |-> <<180000, 200000, 180000>>],
    [line |-> 1789, op |-> "positionXYZ", args |-> <<0, 9350000, -3500000>>],
    [line |-> 1790, op |-> "SetTransformations", args |-> <<0, 0, 0>>],
    [line |-> 1791, op |-> "SetShaderColor", args |-> <<0, 0, 0, 1000000>>],
    [line |-> 1792, op |-> "SetShaderMaterial", args |-> <<"plasticBlack">>],
    [line |-> 1793, op |-> "Draw", args |-> <<"DrawCylinderMesh">>],
    [line |-> 1797, op |-> "scaleXYZ", args |-> <<220000, 100000, 220000>>],
    [line |-> 1798, op |-> "positionXYZ", args |-> <<0, 9500000, -3500000>>],
    [line |-> 1799, op |-> "SetTransformations", args |-> <<0, 0, 0>>],
    [line |-> 1800, op |-> "SetShaderColor", args |-> <<0, 0, 0, 1000000>>],
    [line |-> 1801, op |-> "SetShaderMaterial", args |-> <<"plasticBlack">>],
    [line |-> 1802, op |-> "Draw", args |-> <<"DrawCylinderMesh">>],
    [line |-> 1806, op |-> "scaleXYZ", args |-> <<150000, 200000, 150000>>],
    [line |-> 1807, op |-> "positionXYZ", args |-> <<0, 9600000, -3500000>>],
    [line |-> 1808, op |-> "SetTransformations", args |-> <<0, 0, 0>>],
    [line |-> 1809, op |-> "SetShaderColor", args |-> <<0, 0, 0, 1000000>>],
    [line |-> 1810, op |-> "SetShaderMaterial", args |-> <<"plasticBlack">>],
    [line |-> 1811, op |-> "Draw", args |-> <<"DrawCylinderMesh">>],
    [line |-> 1815, op |-> "scaleXYZ", args |-> <<80000, 60000, 80000>>],
    [line |-> 1816, op |-> "positionXYZ", args |-> <<0, 9800000, -3500000>>],
    [line |-> 1817, op |-> "SetTransformations", args |-> <<0, 0, 0>>],
    [line |-> 1818, op |-> "SetShaderColor", args |-> <<400000, 400000, 400000, 1000000>>],
    [line |-> 1819, op |-> "Draw", args |-> <<"DrawCylinderMesh">>],
    [line |-> 1823, op |-> "scaleXYZ", args |-> <<220000, 320000, 220000>>],
    [line |-> 1824, op |-> "positionXYZ", args |-> <<0, 10150000, -3500000>>],
    [line |-> 1825, op |-> "SetTransformations", args |-> <<0, 0, 0>>],
    [line |-> 1827, op |-> "setBoolValue", args |-> <<"bUseLighting", FALSE>>],
    [line |-> 1828, op |-> "SetShaderColor", args |-> <<1300000, 1100000, 650000, 1000000>>],
    [line |-> 1829, op |-> "Draw", args |-> <<"DrawSphereMesh">>],
    [line |-> 1830, op |-> "setBoolValue", args |-> <<"bUseLighting", TRUE>>],
    [line |-> 1834, op |-> "scaleXYZ", args |-> <<30000, 800000, 30000>>],
    [line |-> 1835, op |-> "positionXYZ", args |-> <<900000, 9550000, -3500000>>],
    [line |-> 1836, op |-> "SetTransformations", args |-> <<0, 0, 90000000>>],
    [line |-> 1837, op |-> "SetShaderColor", args |-> <<0, 0, 0, 1000000>>],
    [line |-> 1838, op |-> "SetShaderMaterial", args |-> <<"plasticBlack">>],
    [line |-> 1839, op |-> "Draw", args |-> <<"DrawCylinderMesh">>],
    [line |-> 1843, op |-> "scaleXYZ", args |-> <<100000, 50000, 100000>>],
    [line |-> 1844, op |-> "positionXYZ", args |-> <<950000, 9550000, -3500000>>],
    [line |-> 1845, op |-> "SetTransformations", args |-> <<0, 0, 90000000>>],
    [line |-> 1846, op |-> "SetShaderColor", args |-> <<100000, 100000, 100000, 1000000>>],
    [line |-> 1847, op |-> "SetShaderMaterial", args |-> <<"plasticBlack">>],
    [line |-> 1848, op |-> "Draw", args |-> <<"DrawCylinderMesh">>],
    [line |-> 1852, op |-> "glEnable", args |-> <<"GL_BLEND">>],
    [line |-> 1853, op |-> "glBlendFunc", args |-> <<"GL_SRC_ALPHA", "GL_ONE_MINUS_SRC_ALPHA">>],
    [line |-> 1854, op |-> "glDepthMask", args |-> <<FALSE>>],
    [line |-> 1855, op |-> "glEnable", args |-> <<"GL_CULL_FACE">>],
    [line |-> 1861, op |-> "glCullFace", args |-> <<"GL_BACK">>],
    [line |-> 1862, op |-> "scaleXYZ", args |-> <<300000, -1340000, 300000>>],
    [line |-> 1863, op |-> "positionXYZ", args |-> <<0, 9460000, -3500000>>],
    [line |-> 1864, op |-> "SetTransformations", args |-> <<0, 0, 0>>],
    [line |-> 1865, op |-> "SetShaderMaterial", args |-> <<"glass">>],
    [line |-> 1866, op |-> "SetShaderTexture", args |-> <<"FrostedGlass">>],
    [line |-> 1867, op |-> "SetTextureUVScale", args |-> <<1400000, 1400000>>],
    [line |-> 1868, op |-> "setVec4Value", args |-> <<"objectColor", <<850000, 900000, 1000000, 380000>>>>],
    [line |-> 1869, op |-> "Draw", args |-> <<"DrawTaperedCylinderMesh">>],
    [line |-> 1874, op |-> "glCullFace", args |-> <<"GL_FRONT">>],
    [line |-> 1875, op |-> "scaleXYZ", args |-> <<796000, 2520000, 796000>>],
    [line |-> 1876, op |-> "positionXYZ", args |-> <<0, 9400000, -3500000>>],
    [line |-> 1877, op |-> "SetTransformations", args |-> <<0, 0, 0>>],
    [line |-> 1878, op |-> "SetShaderMaterial", args |-> <<"glass">>],
    [line |-> 1879, op |-> "SetShaderTexture", args |-> <<"FrostedGlass">>],
    [line |-> 1880, op |-> "SetTextureUVScale", args |-> <<1100000, 1100000>>],
    [line |-> 1881, op |-> "setVec4Value", args |-> <<"objectColor", <<850000, 900000, 1000000, 380000>>>>],
    [line |-> 1882, op |-> "Draw", args |-> <<"DrawCylinderMesh">>],
    [line |-> 1886, op |-> "glCullFace", args |-> <<"GL_BACK">>],
    [line |-> 1887, op |-> "scaleXYZ", args |-> <<800000, 2500000, 800000>>],
    [line |-> 1888, op |-> "positionXYZ", args |-> <<0, 9400000, -3500000>>],
    [line |-> 1889, op |-> "SetTransformations", args |-> <<0, 0, 0>>],
    [line |-> 1890, op |-> "SetShaderMaterial", args |-> <<"glass">>],
    [line |-> 1891, op |-> "SetShaderTexture", args |-> <<"FrostedGlass">>],
    [line |-> 1892, op |-> "SetTextureUVScale", args |-> <<1200000, 1200000>>],
    [line |-> 1893, op |-> "setVec4Value", args |-> <<"objectColor", <<850000, 900000, 1000000, 380000>>>>],
    [line |-> 1894, op |-> "Draw", args |-> <<"DrawCylinderMesh">>],
    [line |-> 1897, op |-> "glDisable", args |-> <<"GL_CULL_FACE">>],
    [line |-> 1898, op |-> "glDepthMask", args |-> <<TRUE>>],
    [line |-> 1903, op |-> "glDepthMask", args |-> <<FALSE>>],
    [line |-> 1904, op |-> "glDisable", args |-> <<"GL_DEPTH_TEST">>],
    [line |-> 1905, op |-> "glEnable", args |-> <<"GL_BLEND">>],
    [line |-> 1906, op |-> "glBlendFunc", args |-> <<"GL_ONE", "GL_ONE">>],
    [line |-> 1908, op |-> "scaleXYZ", args |-> <<320000, 440000, 320000>>],
    [line |-> 1909, op |-> "positionXYZ", args |-> <<0, 10150000, -3500000>>],
    [line |-> 1910, op |-> "SetTransformations", args |-> <<0, 0, 0>>],
    [line |-> 1911, op |-> "setBoolValue", args |-> <<"bUseLighting", FALSE>>],
    [line |-> 1912, op |-> "SetShaderColor", args |-> <<220000, 190000, 80000, 1000000>>],
    [line |-> 1913, op |-> "Draw", args |-> <<"DrawSphereMesh">>],
    [line |-> 1915, op |-> "setBoolValue", args |-> <<"bUseLighting", TRUE>>],
    [line |-> 1916, op |-> "glBlendFunc", args |-> <<"GL_SRC_ALPHA", "GL_ONE_MINUS_SRC_ALPHA">>],
    [line |-> 1917, op |-> "glEnable", args |-> <<"GL_DEPTH_TEST">>],
    [line |-> 1918, op |-> "glDepthMask", args |-> <<TRUE>>]
  >>

\* the render-pass state of the specification: the GL flags and the
\* lighting uniform
RenderPassState ==
  [blendEnabled |-> glState.GL_BLEND, depthWriteEnabled |-> glState.depthMask,
   cullEnabled |-> glState.GL_CULL_FACE, cullFace |-> glState.cullFace,
   lightingEnabled |-> uniforms[g_UseLightingName]]

\* first statement of the glass-shade block and the statement after its restore
GlassBeginLine == 1852
GlassEndLine == 1898

\* mutant: glDisable has no effect
ExecGL_IgnoresDisable(g, op) ==
  CASE op.op = "glEnable" -> [g EXCEPT ![op.args[1]] = TRUE]
    [] op.op = "glBlendFunc" -> [g EXCEPT !.blendFunc = op.args]
    [] op.op = "glDepthMask" -> [g EXCEPT !.depthMask = op.args[1]]
    [] op.op = "glCullFace" -> [g EXCEPT !.cullFace = op.args[1]]
    [] OTHER -> g

\* mutant: glCullFace has no effect
ExecGL_IgnoresCullFace(g, op) ==
  CASE op.op = "glEnable" -> [g EXCEPT ![op.args[1]] = TRUE]
    [] op.op = "glDisable" -> [g EXCEPT ![op.args[1]] = FALSE]
    [] op.op = "glBlendFunc" -> [g EXCEPT !.blendFunc = op.args]
    [] op.op = "glDepthMask" -> [g EXCEPT !.depthMask = op.args[1]]
    [] OTHER -> g

\* the GL render state after statement op
ExecGL(g, op) ==
  CASE op.op = "glEnable" -> [g EXCEPT ![op.args[1]] = TRUE]
    [] op.op = "glDisable" -> [g EXCEPT ![op.args[1]] = FALSE]
    [] op.op = "glBlendFunc" -> [g EXCEPT !.blendFunc = op.args]
    [] op.op = "glDepthMask" -> [g EXCEPT !.depthMask = op.args[1]]
    [] op.op = "glCullFace" -> [g EXCEPT !.cullFace = op.args[1]]
    [] OTHER -> g

\* the uniform state after statement op; local is the content of the
\* unassigned OBJECT_MATERIAL of a SetShaderMaterial call
ExecUniforms(u, op, local) ==
  CASE op.op = "setBoolValue" -> setValue(u, op.args[1], op.args[2])
    [] op.op = "setVec4Value" -> setValue(u, op.args[1], op.args[2])
    [] op.op = "SetTransformations" ->
         DoSetTransformations(u, scaleXYZ, op.args[1], op.args[2], op.args[3],
                              positionXYZ)
    [] op.op = "SetShaderColor" -> DoSetShaderColor(u, op.args)
    [] op.op = "SetShaderMaterial" -> DoSetShaderMaterial(u, op.args[1], local)
    [] op.op = "SetShaderTexture" -> DoSetShaderTexture(u, op.args[1])
    [] op.op = "SetTextureUVScale" -> DoSetTextureUVScale(u, op.args)
    [] OTHER -> u

\* the draw calls of the light bulb and of its additive halo
BulbDrawLine == 1829

HaloDrawLine == 1913

\* the last statement that restores the render state after the bulb and
\* after the halo (after the glass shade it is GlassEndLine)
BulbRestoreLine == 1830

HaloRestoreLine == 1918

\* statement k of RenderScene left out
Skipped(k) == [line |-> RenderSceneOps[k].line, op |-> "skip", args |-> <<>>]

\* mutant: the bulb is drawn without switching the lighting off
Statement_BulbLit(k) ==
  IF RenderSceneOps[k].op = "setBoolValue" /\ RenderSceneOps[k].line = BulbDrawLine - 2
  THEN Skipped(k) ELSE RenderSceneOps[k]

\* mutant: the glass-shade block returns with face culling left enabled
Statement_NoCullRestore(k) ==
  IF RenderSceneOps[k].op = "glDisable" /\ RenderSceneOps[k].line = GlassEndLine - 1
  THEN Skipped(k) ELSE RenderSceneOps[k]

\* mutant: the halo is drawn with the model matrix of the draw before it
Statement_NoHaloTransform(k) ==
  IF RenderSceneOps[k].op = "SetTransformations"
     /\ RenderSceneOps[k].line \in HaloDrawLine - 4 .. HaloDrawLine
  THEN Skipped(k) ELSE RenderSceneOps[k]

\* mutant: RenderScene does not switch blending off at entry
Statement_NoBlendReset(k) ==
  IF RenderSceneOps[k].op = "glDisable" /\ RenderSceneOps[k].args = <<"GL_BLEND">>
  THEN Skipped(k) ELSE RenderSceneOps[k]

\* mutant: the glass shade is drawn with the UV scale of the draw before it
Statement_NoGlassUVScale(k) ==
  IF RenderSceneOps[k].op = "SetTextureUVScale"
     /\ RenderSceneOps[k].line \in GlassBeginLine .. GlassEndLine
  THEN Skipped(k) ELSE RenderSceneOps[k]

\* the draw calls of the second to fourth sphere of the two groups of gold
\* spheres, whose colour is set once per group
GoldSphereReuseLines == {1324, 1329, 1334, 1350, 1355, 1360}

\* mutant: the bulb is drawn with the surface of the draw before it
Statement_NoBulbColor(k) ==
  IF RenderSceneOps[k].op = "SetShaderColor" /\ RenderSceneOps[k].line = BulbDrawLine - 1
  THEN Skipped(k) ELSE RenderSceneOps[k]

\* statement k of RenderScene
Statement(k) == RenderSceneOps[k]

\* the uniforms a draw call reads: model matrix, use-texture flag, sampler,
\* UV scale, flat colour, material and lighting flag
DrawUniforms ==
  [n \in {g_ModelName, g_UseTextureName, g_TextureValueName, "UVscale",
          g_ColorValueName, "material.diffuseColor", "material.specularColor",
          "material.shininess", g_UseLightingName} |-> uniforms[n]]

\* the program calls RenderScene once per frame, after PrepareScene
RenderSceneCall ==
  /\ pc = 0
  /\ call.op \in {"PrepareScene", "RenderScene"}
  /\ frame < MaxFrames
  /\ pc' = 1
  /\ call' = [op |-> "RenderScene", args |-> <<>>, ret |-> FALSE]
  /\ sinceDraw' = {}
  /\ sinceCall' = {}
  /\ UNCHANGED <<m_pShaderManager, m_objectMaterials, files, glState, uniforms,
                 meshes, scaleXYZ, positionXYZ, frame, glassEntry, seen, viewVars>>
  /\ UNCHANGED texVars

RenderSceneStep ==
  /\ pc \in 1..Len(RenderSceneOps)
  /\ LET op == Statement(pc)
     IN /\ glState' = ExecGL(glState, op)
        /\ \E local \in IndeterminateMaterials :
             uniforms' = ExecUniforms(uniforms, op, local)
        /\ scaleXYZ' = IF op.op = "scaleXYZ" THEN op.args ELSE scaleXYZ
        /\ positionXYZ' = IF op.op = "positionXYZ" THEN op.args ELSE positionXYZ
        /\ glassEntry' = IF op.line = GlassBeginLine THEN RenderPassState ELSE glassEntry
        /\ sinceDraw' = IF op.op = "Draw" THEN {} ELSE sinceDraw \cup {op.op}
        /\ sinceCall' = sinceCall \cup {op.op}
        /\ seen' = IF op.op = "Draw"
                     THEN (pc :> [first |-> IF pc \in DOMAIN seen
                                             THEN seen[pc].first ELSE DrawUniforms,
                                  last |-> DrawUniforms]) @@ seen
                     ELSE seen
  /\ pc' = pc + 1
  /\ UNCHANGED viewVars
  /\ UNCHANGED <<m_pShaderManager, m_objectMaterials, files, meshes, frame, call>>
  /\ UNCHANGED texVars

RenderSceneReturn ==
  /\ pc = Len(RenderSceneOps) + 1
  /\ pc' = 0
  /\ frame' = frame + 1
  /\ scaleXYZ' = <<0, 0, 0>>
  /\ positionXYZ' = <<0, 0, 0>>
  /\ call' = [op |-> "RenderScene", args |-> <<>>, ret |-> TRUE]
  /\ UNCHANGED <<m_pShaderManager, m_objectMaterials, files, glState, uniforms,
                 meshes, glassEntry, histVars, viewVars>>
  /\ UNCHANGED texVars

\* the texture files of the scene: all readable RGB images, or one of them
\* unreadable (0) or a two-channel image (2)
SceneFilesGood == [i \in 1..Len(SceneTextureLoads) |-> 3]

SceneFileSystems ==
  {[name \in {SceneTextureLoads[i][1] : i \in 1..Len(SceneTextureLoads)} |->
      LET i == CHOOSE j \in 1..Len(SceneTextureLoads) : SceneTextureLoads[j][1] = name
      IN outcome[i]] :
   outcome \in {SceneFilesGood} \cup
     {[SceneFilesGood EXCEPT ![bad] = k] : bad \in 1..Len(SceneTextureLoads), k \in {0, 2}}}

InitScene == \E fileSystem \in SceneFileSystems, depthTest \in BOOLEAN :
  InitWith(fileSystem, depthTest)

NextScene ==
  \/ PrepareScene
  \/ RenderSceneCall
  \/ RenderSceneStep
  \/ RenderSceneReturn

SpecScene == InitScene /\ [][NextScene]_vars

(***************************************************************************)
(* The view specification: the per-frame view preparation with its         *)
(* keyboard poll, and the mouse callbacks                                  *)
(***************************************************************************)
\* the key combinations held down at a poll, the values glfwGetTime
\* returns, the mouse positions and the scroll offsets GLFW reports
KeySets ==
  {{}, {"ESCAPE"}, {"W"}, {"E"}, {"P"}, {"O"}, {"P", "O"}, {"W", "P"}, {"W", "O"}}
MousePositions == {<<400000000, 300000000>>, <<600000000, 500000000>>}
ScrollOffsets == {-1000000, 1000000}

PrepareSceneView(currentFrame, pressed) ==
  /\ pc = 0
  /\ LET k == DoProcessKeyboardEvents(pressed)
     IN /\ gDeltaTime' = currentFrame - gLastFrame
        /\ gLastFrame' = currentFrame
        /\ g_pCamera' = k.camera
        /\ bOrthographicProjection' = k.bOrthographicProjection
        /\ m_pWindow' = [m_pWindow EXCEPT !.shouldClose = k.shouldClose]
        /\ uniforms' =
             setValue(setValue(setValue(uniforms,
               g_ViewName, GetViewMatrix(k.camera)),
               g_ProjectionName, Projection(k.camera, k.bOrthographicProjection)),
               "viewPosition", <<k.camera.Position, k.camera.moved>>)
        /\ lastKey' = IF pressed \cap {"O", "P"} = {"O"} THEN "O"
                      ELSE IF pressed \cap {"O", "P"} = {"P"} THEN "P"
                      ELSE IF pressed \cap {"O", "P"} = {} THEN lastKey
                      ELSE NoKey
  /\ call' = [op |-> "PrepareSceneView", args |-> <<currentFrame, pressed>>,
              ret |-> TRUE]
  /\ UNCHANGED <<m_pShaderManager, m_objectMaterials, files, glState, meshes, pc,
                 scaleXYZ, positionXYZ, frame, glassEntry, histVars, gLastX,
                 gLastY, gFirstMouse>>
  /\ UNCHANGED texVars

Mouse_Position_Callback(xMousePos, yMousePos) ==
  /\ pc = 0
  /\ LET lastX == IF gFirstMouse THEN xMousePos ELSE gLastX
         lastY == IF gFirstMouse THEN yMousePos ELSE gLastY
         xOffset == xMousePos - lastX
         yOffset == lastY - yMousePos
     IN /\ gFirstMouse' = FALSE
        /\ gLastX' = xMousePos
        /\ gLastY' = yMousePos
        /\ g_pCamera' = [g_pCamera EXCEPT !.turned = TRUE]
        /\ call' = [op |-> "Mouse_Position_Callback",
                    args |-> <<xMousePos, yMousePos>>, ret |-> <<xOffset, yOffset>>]
  /\ UNCHANGED <<m_pShaderManager, m_objectMaterials, files, glState, uniforms,
                 meshes, pc, scaleXYZ, positionXYZ, frame, glassEntry, histVars,
                 m_pWindow, gDeltaTime, gLastFrame, bOrthographicProjection,
                 lastKey>>
  /\ UNCHANGED texVars

Mouse_Scroll_Callback(yOffset) ==
  /\ pc = 0
  /\ g_pCamera' = [g_pCamera EXCEPT !.scrolled = TRUE]
  /\ call' = [op |-> "Mouse_Scroll_Callback", args |-> <<yOffset>>, ret |-> TRUE]
  /\ UNCHANGED <<m_pShaderManager, m_objectMaterials, files, glState, uniforms,
                 meshes, pc, scaleXYZ, positionXYZ, frame, glassEntry, histVars,
                 m_pWindow, gLastX, gLastY, gFirstMouse, gDeltaTime, gLastFrame,
                 bOrthographicProjection, lastKey>>
  /\ UNCHANGED texVars

NextView ==
  \/ \E currentFrame \in gLastFrame..MaxTime, pressed \in KeySets :
       PrepareSceneView(currentFrame, pressed)
  \/ \E position \in MousePositions :
       Mouse_Position_Callback(position[1], position[2])
  \/ \E yOffset \in ScrollOffsets : Mouse_Scroll_Callback(yOffset)

SpecView == Init /\ [][NextView]_vars

(***************************************************************************)
(* Properties                                                              *)
(***************************************************************************)
\* a tag some registered entry carries
Registered(tag) == \E i \in 0..(m_loadedTextures - 1) : m_textureIDs[i].tag = tag

\* the tags of the successful loads so far
LoadedTags == {okLoads[k] : k \in 1..Len(okLoads)}

\* the step was a CreateGLTexture call whose file decodes to the given outcomes
CreateStep(outcomes) ==
  /\ call'.op = "CreateGLTexture"
  /\ files[call'.args[1]] \in outcomes

RegistryUnchanged ==
  /\ m_loadedTextures' = m_loadedTextures
  /\ m_textureIDs' = m_textureIDs

C1_Slots ==
  /\ m_loadedTextures = Len(okLoads)
  /\ \A k \in 1..Len(okLoads) :
       /\ m_textureIDs[k - 1].tag = okLoads[k]
       /\ (\A j \in 1..(k - 1) : okLoads[j] # okLoads[k])
            => FindTextureSlot(okLoads[k]) = k - 1

C1_NoReuse ==
  /\ m_loadedTextures' >= m_loadedTextures
  /\ \A i \in 0..(m_loadedTextures - 1) : m_textureIDs'[i].tag = m_textureIDs[i].tag

\* C1: the k-th successful load (from 0) is stored at index k, so the slot
\* FindTextureSlot finds for a tag loaded once is the number of successful
\* loads before it; the registered count never decreases and an entry's slot
\* is never given to another tag.
C1_SlotMonotonicity == []C1_Slots /\ [][C1_NoReuse]_vars

\* three loads registered, the second under a new tag, with a failed load
\* among the calls
C1_Witness ==
  /\ Len(okLoads) = 3
  /\ okLoads[1] # okLoads[2]
  /\ FindTextureSlot(okLoads[2]) = 1
  /\ failedTags # {}
  /\ call.op = "CreateGLTexture"
  /\ call.ret = TRUE

\* C2 (as claimed): once the glass-shade block has restored its state, every
\* flag of the render-pass state equals its value when the block began.
C2_PassStateSymmetric ==
  (pc > 1 /\ RenderSceneOps[pc - 1].line = GlassEndLine) => RenderPassState = glassEntry

\* C3 (as claimed): when RenderScene has returned, the render state is the
\* opaque baseline its first statements establish.
C3_BaselineAtReturn ==
  (call.op = "RenderScene" /\ call.ret = TRUE /\ pc = 0) =>
    /\ glState.GL_BLEND = FALSE
    /\ glState.blendFunc = <<"GL_SRC_ALPHA", "GL_ONE_MINUS_SRC_ALPHA">>
    /\ glState.depthMask = TRUE
    /\ glState.GL_DEPTH_TEST = TRUE
    /\ glState.GL_CULL_FACE = FALSE
    /\ uniforms[g_UseLightingName] = TRUE

MaterialUniforms ==
  <<uniforms["material.diffuseColor"], uniforms["material.specularColor"],
    uniforms["material.shininess"]>>

MaterialDefined(tag) ==
  \E i \in 1..Len(m_objectMaterials) : m_objectMaterials[i].tag = tag

C4_Step ==
  (/\ call'.op = "SetShaderMaterial"
   /\ Len(m_objectMaterials) > 0
   /\ ~MaterialDefined(call'.args[1]))
    => MaterialUniforms' = MaterialUniforms

\* C4 (as claimed): SetShaderMaterial with an undefined tag on a non-empty
\* registry leaves the three material uniforms as they were.
C4_UndefinedTagKeepsUniforms == [][C4_Step]_vars

\* C5 (as claimed): the first texture loaded after DestroyGLTextures is
\* found at slot 0.
C5_ReleaseRestartsNumbering ==
  firstAfterRelease # NoTag => FindTextureSlot(firstAfterRelease) = 0

C6_Step ==
  CreateStep({1, 2}) =>
    /\ call'.ret = FALSE
    /\ RegistryUnchanged
    /\ \A tag \in Tags : FindTextureSlot(tag)' = FindTextureSlot(tag)

\* C6: a CreateGLTexture call whose image has neither 3 nor 4 channels
\* returns false, records no entry, leaves the count as it was, and every
\* tag resolves to the slot it resolved to before.
C6_UnsupportedChannelsRejected == [][C6_Step]_vars

\* a two-channel load was just rejected while a texture is registered
C6_Witness ==
  /\ call.op = "CreateGLTexture"
  /\ files[call.args[1]] = 2
  /\ call.ret = FALSE
  /\ m_loadedTextures >= 1
  /\ FindTextureSlot(okLoads[1]) = 0

C7_Step ==
  /\ CreateStep({0}) => (call'.ret = FALSE /\ RegistryUnchanged)
  /\ (CreateStep({3, 4}) /\ failedTags # {}) =>
       /\ call'.ret = TRUE
       /\ m_loadedTextures' = m_loadedTextures + 1
       /\ m_textureIDs'[m_loadedTextures].tag = call'.args[2]
  /\ (call'.op = "SetShaderTexture" /\ call'.args[1] \in failedTags \ LoadedTags) =>
       uniforms'[g_TextureValueName] = -1

C7_FailedTagAbsent ==
  \A tag \in failedTags \ LoadedTags : FindTextureSlot(tag) = -1

\* C7: a CreateGLTexture call whose file does not decode returns false and
\* leaves the registry as it was; a later load of a readable image returns
\* true and takes the next free slot; and a tag whose load failed, and that
\* no successful load registered, resolves to -1 in FindTextureSlot and in
\* the sampler SetShaderTexture writes.
C7_DecodeFailureIsSoft == []C7_FailedTagAbsent /\ [][C7_Step]_vars

\* a load failed, a later load took slot 0, and SetShaderTexture was then
\* called with the failed tag
C7_Witness ==
  /\ call.op = "SetShaderTexture"
  /\ call.args[1] \in failedTags \ LoadedTags
  /\ m_loadedTextures >= 1
  /\ uniforms[g_TextureValueName] = -1

C8_Lookup ==
  \A tag \in Tags : ~Registered(tag) =>
    /\ FindTextureSlot(tag) = -1
    /\ FindTextureID(tag) = -1

C8_Step ==
  (call'.op = "SetShaderTexture" /\ ~Registered(call'.args[1])) =>
    /\ uniforms'[g_UseTextureName] = 1
    /\ uniforms'[g_TextureValueName] = -1

\* C8: for a tag no entry carries, FindTextureSlot and FindTextureID return
\* -1, the empty registry included, and SetShaderTexture with it sets the
\* use-texture flag and writes -1 as the sampler.
C8_MissSentinel == []C8_Lookup /\ [][C8_Step]_vars

\* SetShaderTexture was called with an unregistered tag on a non-empty registry
C8_Witness ==
  /\ call.op = "SetShaderTexture"
  /\ ~Registered(call.args[1])
  /\ m_loadedTextures >= 1
  /\ uniforms[g_UseTextureName] = 1
  /\ uniforms[g_TextureValueName] = -1

\* C9 (as claimed): after PrepareScene the material tags are pairwise
\* distinct, each built-in tag in exactly one entry.
C9_MaterialTagsUnique ==
  call.op \in {"PrepareScene", "RenderScene"} =>
    /\ \A i, j \in 1..Len(m_objectMaterials) :
         m_objectMaterials[i].tag = m_objectMaterials[j].tag => i = j
    /\ \A b \in 1..Len(BuiltInMaterials) :
         Cardinality({i \in 1..Len(m_objectMaterials) :
                        m_objectMaterials[i].tag = BuiltInMaterials[b].tag}) = 1

\* C10: FindMaterial returns false exactly when the material registry is
\* empty; on a non-empty registry it returns true for every tag, matched or
\* not.
C10_FoundIffNonEmpty ==
  \A tag \in MaterialTags, local \in IndeterminateMaterials :
    FindMaterial(tag, local).ret = (Len(m_objectMaterials) # 0)

\* FindMaterial returned true for a tag no entry of the non-empty registry carries
C10_Witness ==
  /\ call.op = "FindMaterial"
  /\ Len(m_objectMaterials) > 0
  /\ ~MaterialDefined(call.args[1])
  /\ call.ret.ret = TRUE

C11_Step ==
  \A i \in 0..(m_loadedTextures - 1) :
    /\ m_textureIDs'[i].tag = m_textureIDs[i].tag
    /\ m_textureIDs'[i].ID = m_textureIDs[i].ID

\* C11 (as claimed): no operation changes the tag or the GPU handle of an
\* entry already recorded, and the entry stays at its index.
C11_EntryImmutable == [][C11_Step]_vars

\* C12 (as claimed): the registered count never exceeds the table's 16
\* entries and every entry is stored at an index in 0..15.
C12_WithinTable ==
  /\ m_loadedTextures <= TextureCapacity
  /\ (call.op = "CreateGLTexture" /\ call.args[2] \in CapacityTags /\ pc = 0
        /\ call.ret = TRUE) => call.slot \in 0..(TextureCapacity - 1)

UseTexture == uniforms[g_UseTextureName]

C13_Step ==
  /\ call'.op = "SetShaderColor" => UseTexture' = 0
  /\ call'.op = "SetShaderTexture" => UseTexture' = 1
  /\ call'.op \notin {"SetShaderColor", "SetShaderTexture"} => UseTexture' = UseTexture

\* C13: SetShaderColor always leaves the use-texture flag false (0),
\* SetShaderTexture always leaves it true (1) and no other operation of the
\* binder or the material registry writes it, so the flag a draw sees is
\* true exactly when the most recent of the two calls was SetShaderTexture.
C13_LastSetWins == [](UseTexture \in {0, 1}) /\ [][C13_Step]_vars

\* SetShaderColor cleared the flag that an earlier SetShaderTexture (which
\* wrote the sampler -1) had set
C13_Witness ==
  /\ call.op = "SetShaderColor"
  /\ UseTexture = 0
  /\ uniforms[g_TextureValueName] = -1

MaterialUniformsOf(u) ==
  <<u["material.diffuseColor"], u["material.specularColor"], u["material.shininess"]>>

C14_Twice ==
  \A tag \in MaterialTags, first \in IndeterminateMaterials,
     second \in IndeterminateMaterials :
    MaterialDefined(tag) =>
      MaterialUniformsOf(DoSetShaderMaterial(DoSetShaderMaterial(uniforms, tag, first),
                                             tag, second))
        = MaterialUniformsOf(DoSetShaderMaterial(uniforms, tag, first))

C14_Step ==
  (/\ call.op = "SetShaderMaterial"
   /\ call'.op = "SetShaderMaterial"
   /\ call'.args = call.args
   /\ MaterialDefined(call.args[1]))
    => MaterialUniforms' = MaterialUniforms

\* C14: for a defined tag, SetShaderMaterial called twice in a row leaves
\* the three material uniforms with the values the first call left,
\* whatever the shader held before.
C14_MaterialIdempotent == []C14_Twice /\ [][C14_Step]_vars

\* SetShaderMaterial("copper") was called twice in a row and the uniforms
\* hold copper's values
C14_Witness ==
  /\ call.op = "SetShaderMaterial"
  /\ call.again
  /\ call.args[1] = "copper"
  /\ MaterialDefined("copper")
  /\ MaterialUniforms =
       <<BuiltInMaterials[1].diffuseColor, BuiltInMaterials[1].specularColor,
         BuiltInMaterials[1].shininess>>

C15_Step ==
  call'.op = "SetTextureUVScale" =>
    /\ uniforms'["UVscale"] = call'.args[1]
    /\ DOMAIN uniforms' = DOMAIN uniforms
    /\ \A n \in DOMAIN uniforms \ {"UVscale"} : uniforms'[n] = uniforms[n]

\* C15: SetTextureUVScale writes the UVscale uniform and nothing else: the
\* model matrix, the material uniforms, the use-texture flag, the sampler
\* and the flat colour keep the values pushed before it.
C15_UVScaleOnly == [][C15_Step]_vars

\* the scale was set to (3, 3) after a transform, a material, a colour and
\* a texture had been pushed
C15_Witness ==
  /\ call.op = "SetTextureUVScale"
  /\ uniforms["UVscale"] = <<3000000, 3000000>>
  /\ uniforms[g_ModelName] # <<>>
  /\ uniforms["material.shininess"] # 0
  /\ uniforms[g_ColorValueName] # <<0, 0, 0, 0>>
  /\ UseTexture = 1
  /\ uniforms[g_TextureValueName] = -1

\* the transformations the claim names, each acting on a point
ScaleBy(s, p) ==
  <<MulMillionths(s[1], p[1]), MulMillionths(s[2], p[2]), MulMillionths(s[3], p[3])>>

AboutX(a, p) ==
  <<p[1], MulMillionths(Cos(a), p[2]) - MulMillionths(Sin(a), p[3]),
    MulMillionths(Sin(a), p[2]) + MulMillionths(Cos(a), p[3])>>

AboutY(a, p) ==
  <<MulMillionths(Cos(a), p[1]) + MulMillionths(Sin(a), p[3]), p[2],
    MulMillionths(Cos(a), p[3]) - MulMillionths(Sin(a), p[1])>>

AboutZ(a, p) ==
  <<MulMillionths(Cos(a), p[1]) - MulMillionths(Sin(a), p[2]),
    MulMillionths(Sin(a), p[1]) + MulMillionths(Cos(a), p[2]), p[3]>>

MoveBy(t, p) == <<p[1] + t[1], p[2] + t[2], p[3] + t[3]>>

LocalPoints ==
  {<<1000000, 0, 0>>, <<0, 1000000, 0>>, <<0, 0, 1000000>>,
   <<1000000, 2000000, 3000000>>}

\* the model matrix the shader holds, applied to the local point p
World(p) == TransformPoint(uniforms[g_ModelName], p)

C16_Order ==
  call.op = "SetTransformations" =>
    \A p \in LocalPoints :
      World(p) = MoveBy(call.args[5], AboutZ(call.args[4], AboutY(call.args[3],
                   AboutX(call.args[2], ScaleBy(call.args[1], p)))))

C16_Example ==
  /\ (call.op = "SetTransformations"
      /\ call.args = <<<<2000000, 1000000, 1000000>>, 0, 90000000, 0,
                       <<1000000, 0, 0>>>>)
       => World(<<1000000, 0, 0>>) = <<1000000, 0, -2000000>>
  /\ (call.op = "SetTransformations"
      /\ call.args = <<<<2000000, 1000000, 1000000>>, 90000000, 0, 90000000,
                       <<0, 1000000, -2000000>>>>)
       => World(<<1000000, 1000000, 0>>) = <<0, 3000000, -1000000>>

\* C16: the model matrix SetTransformations pushes scales a point first,
\* then rotates it about X, then about Y, then about Z, then translates it;
\* with scale (2,1,1), rotation (0,90,0) and position (1,0,0) the local
\* point (1,0,0) is mapped to (1,0,-2), and with scale (2,1,1), rotation
\* (90,0,90) and position (0,1,-2) the local point (1,1,0) to (0,3,-1).
C16_TransformOrder == C16_Order /\ C16_Example

\* SetTransformations was called with the claim's arguments and the matrix
\* maps (1,0,0) to (1,0,-2)
C16_Witness ==
  /\ call.op = "SetTransformations"
  /\ call.args = <<<<2000000, 1000000, 1000000>>, 0, 90000000, 0, <<1000000, 0, 0>>>>
  /\ World(<<1000000, 0, 0>>) = <<1000000, 0, -2000000>>

C17_Step ==
  call'.op = "BindGLTextures" =>
    /\ RegistryUnchanged
    /\ \A i \in 0..(TextureCapacity - 1) :
         glTex'.units[i] =
           IF i < m_loadedTextures THEN m_textureIDs[i].ID ELSE glTex.units[i]

C17_Twice ==
  DoBindGLTextures(DoBindGLTextures(TexState)).glTex.units
    = DoBindGLTextures(TexState).glTex.units

\* C17: BindGLTextures leaves texture unit i bound to the handle of entry i
\* for every registered entry, leaves every other unit and the registry as
\* they were, and a second call in a row leaves the bindings of the first.
C17_BindIdempotent == []C17_Twice /\ [][C17_Step]_vars

\* BindGLTextures was called twice in a row with two entries registered,
\* each bound on its own unit
C17_Witness ==
  /\ call.op = "BindGLTextures"
  /\ call.again
  /\ m_loadedTextures >= 2
  /\ m_textureIDs[0].ID # m_textureIDs[1].ID
  /\ glTex.units[0] = m_textureIDs[0].ID
  /\ glTex.units[1] = m_textureIDs[1].ID

\* the positions in RenderSceneOps of the draw calls
Draws == {k \in DOMAIN RenderSceneOps : RenderSceneOps[k].op = "Draw"}

FirstDraw == CHOOSE k \in Draws : \A j \in Draws : k <= j

\* C18: when RenderScene is about to issue its first draw call, blending
\* is disabled, depth writes and the depth test are enabled, face culling
\* is disabled and lighting is enabled, whatever the window setup or the
\* frame before left behind.
C18_BaselineAtFirstDraw ==
  pc = FirstDraw =>
    /\ glState.GL_BLEND = FALSE
    /\ glState.depthMask = TRUE
    /\ glState.GL_DEPTH_TEST = TRUE
    /\ glState.GL_CULL_FACE = FALSE
    /\ uniforms[g_UseLightingName] = TRUE

\* the first draw of the second frame: the frame before it returned with
\* blending enabled
C18_Witness ==
  /\ pc = FirstDraw
  /\ frame = 1
  /\ glState.GL_BLEND = FALSE
  /\ glState.GL_DEPTH_TEST = TRUE

\* the draws of the glass-shade block, in program order
GlassDraws ==
  {k \in Draws : RenderSceneOps[k].line \in GlassBeginLine..GlassEndLine}

GlassDraw(n) ==
  CHOOSE k \in GlassDraws : Cardinality({j \in GlassDraws : j <= k}) = n

GlassCullFaces == <<"GL_BACK", "GL_FRONT", "GL_BACK">>

\* C20: the glass-shade block issues three draws; at each of them blending
\* is enabled with factors (source alpha, one minus source alpha), depth
\* writes are disabled and face culling is enabled, and the cull face is
\* back at the first, front at the second and back at the third.
C20_GlassDrawState ==
  /\ Cardinality(GlassDraws) = 3
  /\ \A n \in 1..3 :
       pc = GlassDraw(n) =>
         /\ glState.GL_BLEND = TRUE
         /\ glState.blendFunc = <<"GL_SRC_ALPHA", "GL_ONE_MINUS_SRC_ALPHA">>
         /\ glState.depthMask = FALSE
         /\ glState.GL_CULL_FACE = TRUE
         /\ glState.cullFace = GlassCullFaces[n]

\* the second glass draw, with front faces culled
C20_Witness ==
  /\ pc = GlassDraw(2)
  /\ glState.GL_BLEND = TRUE
  /\ glState.depthMask = FALSE
  /\ glState.GL_CULL_FACE = TRUE
  /\ glState.cullFace = "GL_FRONT"

\* C19 (as claimed): when the O key was the last of the two seen pressed,
\* the projection PrepareSceneView pushed is orthographic, and when the P
\* key was, it is a perspective projection.
C19_ProjectionFollowsKeys ==
  call.op = "PrepareSceneView" =>
    /\ lastKey = "O" => uniforms[g_ProjectionName][1] = "orthographic"
    /\ lastKey = "P" => uniforms[g_ProjectionName][1] = "perspective"


\* ---------------------------------------------------------------------
\* C21 .. C29: the draw calls of RenderScene
\* ---------------------------------------------------------------------

\* the draw call on a source line
DrawAt(line) == CHOOSE k \in Draws : RenderSceneOps[k].line = line

StandardBlend == <<"GL_SRC_ALPHA", "GL_ONE_MINUS_SRC_ALPHA">>

\* C21: the lighting flag is false at exactly two draw calls, the bulb
\* sphere and the halo sphere, and true at every other draw call; at the
\* halo draw the depth test is disabled and the blend factors are
\* (one, one); at the bulb draw the depth test and depth writes are enabled.
C21_UnlitDraws ==
  pc \in Draws =>
    /\ uniforms[g_UseLightingName] = FALSE
         <=> pc \in {DrawAt(BulbDrawLine), DrawAt(HaloDrawLine)}
    /\ uniforms[g_UseLightingName] \in BOOLEAN
    /\ pc = DrawAt(HaloDrawLine) =>
         /\ glState.GL_DEPTH_TEST = FALSE
         /\ glState.blendFunc = <<"GL_ONE", "GL_ONE">>
    /\ pc = DrawAt(BulbDrawLine) =>
         /\ glState.GL_DEPTH_TEST = TRUE
         /\ glState.depthMask = TRUE

\* the halo is about to be drawn, unlit, after the bulb was drawn unlit
C21_Witness ==
  /\ pc = DrawAt(HaloDrawLine)
  /\ uniforms[g_UseLightingName] = FALSE
  /\ DrawAt(BulbDrawLine) \in DOMAIN seen
  /\ seen[DrawAt(BulbDrawLine)].last[g_UseLightingName] = FALSE


\* the special-state objects: the last draw call of each and the last
\* statement of the restore that follows it
SpecialObjects ==
  {[draw |-> BulbDrawLine, restore |-> BulbRestoreLine],
   [draw |-> RenderSceneOps[GlassDraw(3)].line, restore |-> GlassEndLine],
   [draw |-> HaloDrawLine, restore |-> HaloRestoreLine]}

\* control is just behind the restore of special-state object o
JustRestored(o) ==
  /\ pc - 1 \in DOMAIN RenderSceneOps
  /\ RenderSceneOps[pc - 1].line = o.restore

\* C22: after each special-state object (bulb, glass shade, halo) and
\* before the next draw call or the return, the restored state holds:
\* lighting enabled, blend factors (source alpha, one minus source alpha),
\* depth test and depth writes enabled, face culling disabled.
C22_RestoredAfterSpecial ==
  \A o \in SpecialObjects :
    JustRestored(o) =>
      /\ DrawAt(o.draw) < pc
      /\ \A k \in Draws : ~(DrawAt(o.draw) < k /\ k < pc)
      /\ uniforms[g_UseLightingName] = TRUE
      /\ glState.blendFunc = StandardBlend
      /\ glState.GL_DEPTH_TEST = TRUE
      /\ glState.depthMask = TRUE
      /\ glState.GL_CULL_FACE = FALSE

\* the glass-shade block has just restored the state after its third draw
C22_Witness ==
  /\ JustRestored([draw |-> RenderSceneOps[GlassDraw(3)].line, restore |-> GlassEndLine])
  /\ seen[GlassDraw(3)].last[g_UseLightingName] = TRUE
  /\ glState.GL_CULL_FACE = FALSE


\* C24: every draw call is preceded, after the draw call before it, by a
\* call of SetTransformations.
C24_TransformBeforeDraw ==
  pc \in Draws => "SetTransformations" \in sinceDraw

\* the second draw call of the frame: its SetTransformations came after
\* the first draw call
C24_Witness ==
  /\ pc \in Draws
  /\ pc > FirstDraw
  /\ \A k \in Draws : ~(FirstDraw < k /\ k < pc)
  /\ "SetTransformations" \in sinceDraw
  /\ FirstDraw \in DOMAIN seen
  /\ uniforms[g_ModelName] # seen[FirstDraw].last[g_ModelName]


\* C27: whenever a draw call is issued with blending enabled, depth
\* writes are disabled; every draw call before the glass-shade block is
\* issued with blending disabled and depth writes enabled, in the first
\* frame and in every later one.
C27_BlendedDrawsKeepDepth ==
  pc \in Draws =>
    /\ glState.GL_BLEND = TRUE => glState.depthMask = FALSE
    /\ RenderSceneOps[pc].line < GlassBeginLine =>
         /\ glState.GL_BLEND = FALSE
         /\ glState.depthMask = TRUE

\* an opaque draw call of a later frame, after the frame before it drew
\* the glass shade and the halo with blending enabled
C27_Witness ==
  /\ pc \in Draws
  /\ pc > FirstDraw
  /\ RenderSceneOps[pc].line < GlassBeginLine
  /\ DrawAt(HaloDrawLine) \in DOMAIN seen
  /\ glState.GL_BLEND = FALSE
  /\ glState.depthMask = TRUE

\* what a textured draw call needs set for it
TexturedSetters == {"SetShaderMaterial", "SetShaderTexture", "SetTextureUVScale"}

\* C29: every draw call issued with the use-texture flag true has had
\* SetShaderMaterial, SetShaderTexture and SetTextureUVScale each called
\* after the draw call before it.
C29_TexturedDrawIsSetUp ==
  (pc \in Draws /\ UseTexture = 1) => TexturedSetters \subseteq sinceDraw

\* the first glass draw, textured, right after the untextured draws of the
\* lamp
C29_Witness ==
  /\ pc = GlassDraw(1)
  /\ UseTexture = 1
  /\ TexturedSetters \subseteq sinceDraw
  /\ seen[DrawAt(BulbDrawLine)].last[g_UseTextureName] = 0

\* the calls that select the surface source of a draw
SurfaceSetters == {"SetShaderColor", "SetShaderTexture"}

\* the draw call before draw call k
PrevDraw(k) == CHOOSE j \in Draws : j < k /\ \A i \in Draws : ~(j < i /\ i < k)

\* C23 as stated: between any two consecutive draw calls, and before the
\* first, SetShaderColor or SetShaderTexture is called.
C23_SurfaceBeforeEveryDraw ==
  pc \in Draws => sinceDraw \cap SurfaceSetters # {}

\* C23, amended: every draw call has had SetShaderColor or
\* SetShaderTexture called since RenderScene was entered, and since the
\* draw call before it unless it draws the second, third or fourth sphere
\* of a group of gold spheres; those draws are issued untextured with the
\* flat colour the draw call before them saw.
C23_SurfaceBeforeDrawOrGroup ==
  pc \in Draws =>
    /\ sinceCall \cap SurfaceSetters # {}
    /\ sinceDraw \cap SurfaceSetters = {}
         <=> RenderSceneOps[pc].line \in GoldSphereReuseLines
    /\ RenderSceneOps[pc].line \in GoldSphereReuseLines =>
         /\ UseTexture = 0
         /\ PrevDraw(pc) \in DOMAIN seen
         /\ seen[PrevDraw(pc)].last[g_UseTextureName] = 0
         /\ uniforms[g_ColorValueName] = seen[PrevDraw(pc)].last[g_ColorValueName]

\* the second gold sphere is about to be drawn with the colour set for the
\* first
C23_Witness ==
  /\ pc \in Draws
  /\ RenderSceneOps[pc].line \in GoldSphereReuseLines
  /\ sinceDraw \cap SurfaceSetters = {}
  /\ "SetTransformations" \in sinceDraw
  /\ uniforms[g_ColorValueName] = seen[PrevDraw(pc)].last[g_ColorValueName]

\* C26: in every frame each draw call sees the same model matrix,
\* use-texture flag, sampler index, UV scale, flat colour, material
\* uniforms and lighting flag as the same draw call saw in the frame
\* before and in the first frame.
C26_SameUniformsEveryFrame ==
  (pc \in Draws /\ pc \in DOMAIN seen) =>
    /\ DrawUniforms = seen[pc].first
    /\ DrawUniforms = seen[pc].last

\* the part of C26 that holds: in every frame each draw call sees the
\* same uniforms as before, the flat colour apart
C26_SameButFlatColour ==
  (pc \in Draws /\ pc \in DOMAIN seen) =>
    \A n \in DOMAIN DrawUniforms \ {g_ColorValueName} :
      /\ DrawUniforms[n] = seen[pc].first[n]
      /\ DrawUniforms[n] = seen[pc].last[n]

\* the positions (from 0, as the code counts) of the entries with a tag
EntriesWith(tag) ==
  {i \in 0 .. Len(m_objectMaterials) - 1 : m_objectMaterials[i + 1].tag = tag}

\* the position of the entry defined earliest with a tag
Earliest(tag) == CHOOSE i \in EntriesWith(tag) : \A j \in EntriesWith(tag) : i <= j

\* FindMaterial stops at the earliest of several entries with a tag and
\* copies its three values
C25_Lookup ==
  \A tag \in MaterialTags, local \in IndeterminateMaterials :
    Cardinality(EntriesWith(tag)) >= 2 =>
      /\ FindMaterialLoop(tag, local, 0).bFound = TRUE
      /\ FindMaterialLoop(tag, local, 0).index = Earliest(tag)
      /\ \A later \in EntriesWith(tag) \ {Earliest(tag)} :
           FindMaterialLoop(tag, local, 0).index < later
      /\ FindMaterial(tag, local).material
           = MaterialValue(m_objectMaterials[Earliest(tag) + 1])

\* SetShaderMaterial pushes the values of the earliest entry
C25_Step ==
  (call'.op = "SetShaderMaterial"
   /\ Cardinality(EntriesWith(call'.args[1])) >= 2) =>
    LET first == m_objectMaterials[Earliest(call'.args[1]) + 1]
    IN MaterialUniformsOf(uniforms')
         = <<first.diffuseColor, first.specularColor, first.shininess>>

\* C25: when several material entries carry the same tag, FindMaterial
\* copies the diffuse colour, specular colour and shininess of the entry
\* defined earliest with that tag, SetShaderMaterial pushes those values,
\* and later entries with the tag are never returned.
C25_EarliestDuplicateWins == []C25_Lookup /\ [][C25_Step]_vars

\* SetShaderMaterial("glass") after DefineObjectMaterials ran twice
C25_Witness ==
  /\ call.op = "SetShaderMaterial"
  /\ call.args = <<"glass">>
  /\ Cardinality(EntriesWith("glass")) = 2
  /\ MaterialUniforms = <<m_objectMaterials[Earliest("glass") + 1].diffuseColor,
                          m_objectMaterials[Earliest("glass") + 1].specularColor,
                          m_objectMaterials[Earliest("glass") + 1].shininess>>

\* the GPU texture names the registry entries refer to
RecordedIDs(ids, count) == {ids[i].ID : i \in 0 .. count - 1}

\* a CreateGLTexture call whose image decoded returns with the decoded
\* buffer released and with every texture name it generated recorded
C28_Step ==
  (call'.op = "CreateGLTexture" /\ files[call'.args[1]] # 0) =>
    /\ stbi'.held = stbi.held
    /\ \A name \in glTex.gen + 1 .. glTex'.gen :
         name \in RecordedIDs(m_textureIDs', m_loadedTextures')

\* C28: on every return path of CreateGLTexture on which the image was
\* decoded, the decoded pixel buffer has been released and any texture
\* object the call generated is recorded in the registry.
C28_NoLeakOnReturn == [][C28_Step]_vars

\* the part of C28 that holds: the return paths of an image with 3 or 4
\* channels
C28_StepSupported ==
  (call'.op = "CreateGLTexture" /\ ChannelsSupported(files[call'.args[1]])) =>
    /\ stbi'.held = stbi.held
    /\ \A name \in glTex.gen + 1 .. glTex'.gen :
         name \in RecordedIDs(m_textureIDs', m_loadedTextures')

C28_NoLeakWhenSupported == [][C28_StepSupported]_vars

=============================================================================
